---- MODULE Spec2Model ----
(***************************************************************************)
(* A model of the Sentinel-1 ETAD reader of src/sentinel1Etad.py: the      *)
(* product facade (Sentinel1Etad), its burst catalogue and queries, the    *)
(* memoized swath and burst indexing, the burst accessor                   *)
(* (Sentinel1EtadBurst) and the de-burst merge of Sentinel1EtadSwath.      *)
(*                                                                         *)
(* Azimuth times and sampling intervals are integers (one unit is half of  *)
(* the nominal azimuth sampling interval, so that half-sample offsets and  *)
(* numpy's round-half-to-even are representable).                          *)
(***************************************************************************)
EXTENDS Integers, Sequences, FiniteSets, TLC

VARIABLES
    annot,            \* Sentinel1Etad._annot: the etadBurst elements of the XML
    ds,               \* Sentinel1Etad.ds: the NetCDF root group
    auto_mask,        \* the auto-mask mode of every burst group of ds
    burst_catalogue,  \* Sentinel1Etad.burst_catalogue (rows of the DataFrame)
    swath_cache,      \* functools.lru_cache of Sentinel1Etad.__getitem__
    burst_cache,      \* functools.lru_cache of Sentinel1EtadSwath.__getitem__
    constructed,      \* how many objects were constructed so far for each key
    ds0,              \* history: ds as it was when construction finished
    ret,              \* the last call: its name, arguments and outcome
    threads           \* the retrievals that the threads of the caller are in

vars == <<annot, ds, auto_mask, burst_catalogue, swath_cache, burst_cache,
          constructed, ds0, ret, threads>>

\* An optional value: None, or a value held in a one-element tuple
None == <<>>
Some(v) == <<v>>

\* The element of a set of one element; Only({e : x \in {v}}) is e with x
\* standing for the value of v
Only(S) == CHOOSE x \in S : TRUE

\* ------------------------------------------------------------------ bounds

NumSwaths == 2          \* swaths of the product of the indexing specification
BurstsPerSwath == 65    \* bursts of each of its swaths
MaxConstructions == 2   \* objects constructed for one key in one behaviour

\* maxsize of functools.lru_cache() when none is given
LruMaxSize == 128

\* ------------------------------------------------------------- primitives

Range(s) == {s[i] : i \in 1..Len(s)}

\* the decimal digits of n >= 0, most significant first (str(n))
RECURSIVE Digits(_)
Digits(n) == IF n < 10 THEN <<n>> ELSE Append(Digits(n \div 10), n % 10)

\* int(text) of a string of decimal digits
RECURSIVE IntOf(_)
IntOf(d) == IF d = <<>> THEN 0 ELSE 10 * IntOf(SubSeq(d, 1, Len(d) - 1)) + d[Len(d)]

\* format(n, "04d"): zero-padded on the left to a width of at least four
RECURSIVE ZeroPad(_, _)
ZeroPad(d, width) == IF Len(d) >= width THEN d ELSE ZeroPad(<<0>> \o d, width)

\* f"Burst{burst_index:04d}"
BurstName(burst_index) == <<"Burst">> \o ZeroPad(Digits(burst_index), 4)

\* The name of the group of burst bIndex in the file: "Burst" and four digits
StoredBurstName(bIndex) ==
    <<"Burst", (bIndex \div 1000) % 10, (bIndex \div 100) % 10,
      (bIndex \div 10) % 10, bIndex % 10>>

\* np.round(n / d) for d > 0: to the nearest integer, halves to the even one
RoundDiv(n, d) ==
    LET q == n \div d
        r == n % d
    IN  IF 2 * r < d THEN q
        ELSE IF 2 * r > d THEN q + 1
        ELSE IF q % 2 = 0 THEN q ELSE q + 1

\* ---------------------------------------------------- the product on disk

\* The name of the swath group of swath sIndex
SwathNames == <<"IW1", "IW2", "IW3", "IW4", "IW5">>
SwathName(sIndex) == SwathNames[sIndex]

\* The 2-D variables of a burst group, with the code of each in a stored value
VarCode ==
    [ troposphericCorrectionRg |-> 1, ionosphericCorrectionRg |-> 2,
      geodeticCorrectionRg |-> 3, geodeticCorrectionAz |-> 4,
      bistaticCorrectionAz |-> 5, dopplerRangeShiftRg |-> 6,
      fmMismatchCorrectionAz |-> 7, sumOfCorrectionsRg |-> 8,
      sumOfCorrectionsAz |-> 9, lats |-> 10, lons |-> 11, height |-> 12 ]

GridVars == DOMAIN VarCode

\* rangeExtent: the range size of every burst grid of a swath
NumSamples == 2

\* A value of a 2-D array is a pair <<m, p>> that stands for the number
\* m * (c/2)^p, c the speed of light: the products with c/2 = 149896229 are
\* exact in this form.  Zero is <<0, 0>>; the azimuth and range axes hold
\* plain integers.
\* The value stored at (sample, line) of a 2-D variable of burst b: every cell
\* of every variable of every burst holds another number.
StoredValue(b, var, sample, line) ==
    <<((b * 16 + VarCode[var]) * 4 + sample) * 4 + line, 0>>

\* A burst of a product is described by
\*   [pIndex, sIndex, bIndex, productID, t0, nlines, dt, rg0, tmax, data]
\* (t0: azimuth time of its first line; dt: its azimuth sampling; rg0: its
\* gridStartRangeTime0; tmax: its annotated azimuthTimeMax; data: whether the
\* grids are populated).  The burst group of the NetCDF file:
BurstGroup(d) ==
    [ name |-> StoredBurstName(d.bIndex),
      swathID |-> SwathName(d.sIndex),
      bIndex |-> d.bIndex,
      gridSamplingAzimuth |-> d.dt,
      gridSamplingRange |-> 1,
      gridStartRangeTime0 |-> d.rg0,
      rangeExtent |-> NumSamples,
      variables |->
        IF d.data
        THEN [v \in GridVars \cup {"azimuth", "range"} |->
                IF v = "azimuth" THEN [l \in 1..d.nlines |-> d.t0 + (l - 1) * d.dt]
                ELSE IF v = "range" THEN [s \in 1..NumSamples |-> d.rg0 + (s - 1)]
                ELSE [s \in 1..NumSamples |->
                        [l \in 1..d.nlines |-> StoredValue(d.bIndex, v, s, l)]]]
        ELSE [v \in {} |-> <<>>] ]

\* The swath group sIndex: its burst groups, in the order of the file
SwathGroup(layout, sIndex) ==
    [ name |-> SwathName(sIndex),
      swathID |-> SwathName(sIndex),
      groups |->
        LET mine == SelectSeq(layout, LAMBDA d : d.sIndex = sIndex)
        IN  [i \in 1..Len(mine) |-> BurstGroup(mine[i])] ]

\* The least and the greatest number of a set; 0 for the empty set
SetMin(S) == IF S = {} THEN 0 ELSE CHOOSE x \in S : \A y \in S : x <= y
SetMax(S) == IF S = {} THEN 0 ELSE CHOOSE x \in S : \A y \in S : y <= x

\* Dataset(list_[0], "r"): the root group, one group per swath
DatasetOf(layout) ==
    LET swaths == {layout[i].sIndex : i \in 1..Len(layout)}
        n == Cardinality(swaths)
        nth[k \in 1..n] ==
            IF k = 1 THEN CHOOSE s \in swaths : \A t \in swaths : s <= t
            ELSE CHOOSE s \in swaths :
                    /\ s > nth[k - 1]
                    /\ \A t \in swaths : t > nth[k - 1] => s <= t
        lines == UNION {{layout[i].t0 + (l - 1) * layout[i].dt :
                             l \in 1..layout[i].nlines} : i \in 1..Len(layout)}
        ranges == {layout[i].rg0 + (c - 1) : c \in 1..NumSamples, i \in 1..Len(layout)}
    IN  [ groups |-> [k \in 1..n |-> SwathGroup(layout, nth[k])],
          azimuthTimeMin |-> SetMin(lines), azimuthTimeMax |-> SetMax(lines),
          rangeTimeMin |-> SetMin(ranges), rangeTimeMax |-> SetMax(ranges) ]

\* The text of a Sentinel-1 product name is a sequence of atoms: "_" and the
\* characters or words between.  The fields of the name of product pIndex,
\* as str.split("_") gives them; an SLC name has an empty field after "SLC"
\* ("SLC__1SDV").  marker is "S" in the name of a standard product and "A"
\* in the name of its annotation product.
Stamps == <<"T162509", "T162536", "T162603", "T162630", "T162657">>
NameFields(pIndex, marker, crc) ==
    << <<"S1B">>, <<"IW">>, <<"SLC">>, <<>>, <<"1", marker, "D", "V">>,
       <<Stamps[pIndex]>>, <<Stamps[pIndex + 1]>>, <<"017453">>, <<"020D3A">>,
       <<crc>> >>

\* "_".join(parts)
RECURSIVE Join(_)
Join(parts) ==
    IF parts = <<>> THEN <<>>
    ELSE IF Len(parts) = 1 THEN parts[1]
    ELSE parts[1] \o <<"_">> \o Join(Tail(parts))

\* The productID the annotation gives for the bursts of product pIndex: the
\* first product is listed by the name of its annotation product, the others
\* by the name of the standard product
ProductID(pIndex) ==
    Join(NameFields(pIndex, IF pIndex = 1 THEN "A" ELSE "S", "CRC0")) \o <<".SAFE">>

\* One etadBurst element of the annotation XML: the attributes of burstData
\* are text
EtadBurstElement(d) ==
    [ attrib |-> [pIndex |-> Digits(d.pIndex), sIndex |-> Digits(d.sIndex),
                  bIndex |-> Digits(d.bIndex)],
      productID |-> d.productID,
      swathID |-> SwathName(d.sIndex),
      azimuthTimeMin |-> d.t0,
      azimuthTimeMax |-> d.tmax ]

\* correctionGridAzimuthSampling: the azimuth spacing of the grid in metres
GridSpacingY == 8

\* etree.parse(xml_file).getroot(); order: the elements in the order of the file
AnnotationOf(order) ==
    [ etadBurst |-> [i \in 1..Len(order) |-> EtadBurstElement(order[i])],
      correctionGridAzimuthSampling |-> GridSpacingY,
      gridSampling |-> [range |-> 1,
                        azimuth |-> IF order = <<>> THEN 1 ELSE order[1].dt] ]

AllPaths(d) ==
    UNION {{<<d.groups[i].name, d.groups[i].groups[j].name>> :
                j \in 1..Len(d.groups[i].groups)} : i \in 1..Len(d.groups)}

\* rootgrp.set_auto_mask(False): the mode of every group under the root
RootSetAutoMask(d, mode) == [p \in AllPaths(d) |-> mode]

\* ---------------------------------------------------------- group access

HasGroup(groups, name) == \E i \in 1..Len(groups) : groups[i].name = name
GroupByName(groups, name) ==
    groups[CHOOSE i \in 1..Len(groups) : groups[i].name = name]

\* self.ds[index]
SwathGrp(index) == GroupByName(ds.groups, index)
\* the burst group a Sentinel1EtadBurst wraps: path = <<swath name, burst name>>
BurstGrpOf(d, path) == GroupByName(GroupByName(d.groups, path[1]).groups, path[2])
BurstGrp(path) == BurstGrpOf(ds, path)

\* ------------------------------------------------------ the burst catalogue

\* One row of the DataFrame: burst_dict of the element, under index label ix
CatalogueRow(burst_, ix) ==
    [ ix |-> ix,
      pIndex |-> IntOf(burst_.attrib.pIndex),
      sIndex |-> IntOf(burst_.attrib.sIndex),
      bIndex |-> IntOf(burst_.attrib.bIndex),
      productID |-> burst_.productID,
      swathID |-> burst_.swathID,
      azimuthTimeMin |-> burst_.azimuthTimeMin,
      azimuthTimeMax |-> burst_.azimuthTimeMax ]

\* A slip of the loop: the DataFrame is made anew for every element
InitBurstCatalogueKeepsLast(root) ==
    LET n == Len(root.etadBurst)
    IN  IF n = 0 THEN None ELSE Some(<<CatalogueRow(root.etadBurst[n], 0)>>)

\* Sentinel1Etad._init_burst_catalogue: None when the XML lists no burst, else
\* one row per etadBurst element, in the order of the XML, labelled 0, 1, ...
_init_burst_catalogue(root) ==
    LET n == Len(root.etadBurst)
    IN  IF n = 0 THEN None
        ELSE Some([i \in 1..n |-> CatalogueRow(root.etadBurst[i], i - 1)])

\* ------------------------------------------------------ functools.lru_cache

\* The position of key in the cache (least recently used first), 0 if absent
LruFind(cache, key) ==
    IF \E i \in 1..Len(cache) : cache[i].key = key
    THEN CHOOSE i \in 1..Len(cache) : cache[i].key = key
    ELSE 0

\* A hit: the entry becomes the most recently used
LruTouch(cache, i) ==
    SubSeq(cache, 1, i - 1) \o SubSeq(cache, i + 1, Len(cache)) \o <<cache[i]>>

\* A miss: the result is stored, the least recently used entry leaves a full cache
LruInsert(cache, entry) ==
    IF Len(cache) >= LruMaxSize THEN Append(Tail(cache), entry)
    ELSE Append(cache, entry)

\* ---------------------------------------------------------------- indexing

\* Sentinel1Etad.swath_list
swath_list == [i \in 1..Len(ds.groups) |-> ds.groups[i].name]

\* Sentinel1Etad.grid_spacing['y']
grid_spacing_y == annot.correctionGridAzimuthSampling

\* constructed.swath[index]: how many swath objects were constructed for index;
\* constructed.burst[self.id][burst_index]: how many burst objects were
\* constructed for burst_index of the swath object self.  A new object is told
\* from every other by its key and by how many were constructed for that key
\* before it: the first object of a key has number 1.
Count(made, key) == IF key \in DOMAIN made THEN made[key] ELSE 0
Counted(made, key) ==
    IF key \in DOMAIN made THEN [made EXCEPT ![key] = @ + 1]
    ELSE [k \in DOMAIN made \cup {key} |-> IF k = key THEN 1 ELSE made[k]]

\* The cache after a call that raised: lru_cache stores what the function
\* returns, and a call that raises returns nothing
CacheClearedByRaise(cache) == <<>>
CacheAfterRaise(cache) == cache

\* Sentinel1Etad.__getitem__ under lru_cache, on the cache given: the cache
\* after the call and its outcome.  The key holds self; there is one product.
Sentinel1Etad__getitem__(cache, made, index) ==
    LET key == <<"etad", index>>
        i == LruFind(cache, key)
        obj == [id |-> <<index, Count(made, index) + 1>>, cls |-> "Sentinel1EtadSwath",
                grp |-> index, daz_m |-> grid_spacing_y]
    IN  IF i > 0
        THEN [cache |-> LruTouch(cache, i), made |-> made, ok |-> TRUE,
              result |-> cache[i].obj]
        ELSE IF index \notin Range(swath_list)
        THEN [cache |-> CacheAfterRaise(cache), made |-> made, ok |-> FALSE,
              result |-> "AssertionError"]
        ELSE [cache |-> LruInsert(cache, [key |-> key, obj |-> obj]),
              made |-> Counted(made, index), ok |-> TRUE, result |-> obj]

\* Sentinel1EtadSwath.__getitem__ under lru_cache; self is the swath object.
\* self._grp[burst_name] raises IndexError when the group has no such burst.
Sentinel1EtadSwath__getitem__(cache, made, self, burst_index) ==
    LET key == <<self.id, burst_index>>
        i == LruFind(cache, key)
        burst_name == BurstName(burst_index)
        mine == IF self.id \in DOMAIN made THEN made[self.id] ELSE <<>>
        obj == [id |-> <<self.id, burst_index, Count(mine, burst_index) + 1>>,
                cls |-> "Sentinel1EtadBurst",
                grp |-> <<self.grp, burst_name>>, daz_m |-> self.daz_m]
    IN  IF i > 0
        THEN [cache |-> LruTouch(cache, i), made |-> made, ok |-> TRUE,
              result |-> cache[i].obj]
        ELSE IF ~HasGroup(SwathGrp(self.grp).groups, burst_name)
        THEN [cache |-> CacheAfterRaise(cache), made |-> made, ok |-> FALSE,
              result |-> "IndexError"]
        ELSE [cache |-> LruInsert(cache, [key |-> key, obj |-> obj]),
              made |-> [k \in DOMAIN made \cup {self.id} |->
                          IF k = self.id THEN Counted(mine, burst_index) ELSE made[k]],
              ok |-> TRUE, result |-> obj]

\* Sentinel1EtadSwath.burst_list: bIndex of every burst group, in file order
burst_list(self) ==
    LET g == SwathGrp(self.grp).groups IN [i \in 1..Len(g) |-> g[i].bIndex]

\* Sentinel1EtadBurst.swath_id and .burst_index
swath_id(burst) == BurstGrp(burst.grp).swathID
burst_index(burst) == BurstGrp(burst.grp).bIndex

\* for burst_index in index_list: yield self[burst_index], consumed to its end
\* (or to the first access that raises).  The list is walked in its order, the
\* second half on the caches the first half leaves.
RECURSIVE IterGetitem(_, _, _, _)
IterGetitem(cache, made, self, index_list) ==
    IF index_list = <<>>
    THEN [cache |-> cache, made |-> made, ok |-> TRUE, result |-> <<>>]
    ELSE IF Len(index_list) = 1
    THEN LET r == Sentinel1EtadSwath__getitem__(cache, made, self, index_list[1])
         IN  IF r.ok THEN [r EXCEPT !.result = <<r.result>>] ELSE r
    ELSE LET h == Len(index_list) \div 2
             r1 == IterGetitem(cache, made, self, SubSeq(index_list, 1, h))
         IN  IF ~r1.ok THEN r1
             ELSE LET r2 == IterGetitem(r1.cache, r1.made, self,
                                        SubSeq(index_list, h + 1, Len(index_list)))
                  IN  IF ~r2.ok THEN r2
                      ELSE [r2 EXCEPT !.result = r1.result \o r2.result]

\* The swath objects a caller can hold: those Sentinel1Etad.__getitem__ returned
SwathObjects == {swath_cache[i].obj : i \in 1..Len(swath_cache)}

\* pandas Series.unique(): the distinct values, in the order of first appearance
Unique(s) ==
    LET firsts == {i \in 1..Len(s) : \A j \in 1..(i - 1) : s[j] # s[i]}
    IN  [k \in 1..Cardinality(firsts) |->
            s[CHOOSE i \in firsts : Cardinality({j \in firsts : j < i}) = k - 1]]

\* for swath_name in selection.swathID.unique(): yield self[swath_name]
RECURSIVE IterSwathGetitem(_, _, _, _)
IterSwathGetitem(cache, made, names, acc) ==
    IF names = <<>>
    THEN [cache |-> cache, made |-> made, ok |-> TRUE, result |-> acc]
    ELSE LET r == Sentinel1Etad__getitem__(cache, made, Head(names))
         IN  IF ~r.ok THEN r
             ELSE IterSwathGetitem(r.cache, r.made, Tail(names),
                                   Append(acc, r.result))

\* ------------------------------------------- operations: indexing, iteration

\* No key has had more than MaxConstructions objects constructed for it
SwathsWithinBound(made) == \A k \in DOMAIN made : made[k] <= MaxConstructions
BurstsWithinBound(made) ==
    \A k \in DOMAIN made : \A b \in DOMAIN made[k] : made[k][b] <= MaxConstructions

\* facade[index]
GetSwath(index) ==
    \E r \in {Sentinel1Etad__getitem__(swath_cache, constructed.swath, index)} :
        /\ SwathsWithinBound(r.made)
        /\ swath_cache' = r.cache
        /\ constructed' = [constructed EXCEPT !.swath = r.made]
        /\ ret' = [op |-> "Sentinel1Etad.__getitem__", index |-> index,
                   ok |-> r.ok, result |-> r.result]
        /\ UNCHANGED <<annot, threads, ds, auto_mask, burst_catalogue, burst_cache, ds0>>

\* swath[burst_index], on a swath object the caller holds
GetBurst(self, b) ==
    \E r \in {Sentinel1EtadSwath__getitem__(burst_cache, constructed.burst, self, b)} :
        /\ BurstsWithinBound(r.made)
        /\ burst_cache' = r.cache
        /\ constructed' = [constructed EXCEPT !.burst = r.made]
        /\ ret' = [op |-> "Sentinel1EtadSwath.__getitem__", self |-> self,
                   burst_index |-> b, ok |-> r.ok, result |-> r.result]
        /\ UNCHANGED <<annot, threads, ds, auto_mask, burst_catalogue, swath_cache, ds0>>

\* list(swath.iter_bursts()): Sentinel1EtadSwath.iter_bursts, selection=None
IterBursts(self) ==
    \E r \in {IterGetitem(burst_cache, constructed.burst, self, burst_list(self))} :
        /\ BurstsWithinBound(r.made)
        /\ burst_cache' = r.cache
        /\ constructed' = [constructed EXCEPT !.burst = r.made]
        /\ ret' = [op |-> "Sentinel1EtadSwath.iter_bursts", self |-> self,
                   ok |-> r.ok, result |-> r.result]
        /\ UNCHANGED <<annot, threads, ds, auto_mask, burst_catalogue, swath_cache, ds0>>

\* Sentinel1Etad.iter_swaths(selection), consumed to its end; selection is None
\* or a DataFrame of catalogue rows.  A product without bursts has no catalogue
\* (None), and None has no swathID.
iter_swaths(selection) ==
    \E r \in {LET sel == IF selection = None THEN burst_catalogue ELSE selection
                   names == Unique([i \in 1..Len(sel[1]) |-> sel[1][i].swathID])
               IN  IF sel = None
                   THEN [cache |-> swath_cache, made |-> constructed.swath,
                         ok |-> FALSE, result |-> "AttributeError"]
                   ELSE IterSwathGetitem(swath_cache, constructed.swath, names, <<>>)} :
        /\ SwathsWithinBound(r.made)
        /\ swath_cache' = r.cache
        /\ constructed' = [constructed EXCEPT !.swath = r.made]
        /\ ret' = [op |-> "Sentinel1Etad.iter_swaths", selection |-> selection,
                   ok |-> r.ok, result |-> r.result]
        /\ UNCHANGED <<annot, threads, ds, auto_mask, burst_catalogue, burst_cache, ds0>>

\* ------------------------------------------------- Sentinel1EtadBurst reads

\* Arrays: a 1-D array is a sequence of numbers, a 2-D array a sequence of rows.
\* The 1-D variables of a burst group
AxisVars == {"azimuth", "range"}

\* k = constants.c / 2, and k = self._daz_m / self.sampling['y'] (a whole
\* number in the products of the model)
HalfSpeedOfLight == <<1, 1>>
AzimuthFactor(daz_m, y) == <<daz_m \div y, 0>>

\* The product of two values
Times(q, k) == IF q[1] * k[1] = 0 THEN <<0, 0>> ELSE <<q[1] * k[1], q[2] + k[2]>>

\* np.transpose of a 2-D array
Transpose(a) ==
    IF a = <<>> THEN <<>>
    ELSE [j \in 1..Len(a[1]) |-> [i \in 1..Len(a) |-> a[i][j]]]

\* field *= k on a 2-D array
Scaled(field, k) ==
    [i \in 1..Len(field) |-> [j \in 1..Len(field[i]) |-> Times(field[i][j], k)]]

\* correction.endswith('Az'), over the names of the variables
NeverEndswithAz(correction) == FALSE
endswith_Az(correction) ==
    correction \in {"geodeticCorrectionAz", "bistaticCorrectionAz",
                    "fmMismatchCorrectionAz", "sumOfCorrectionsAz"}

\* Sentinel1EtadBurst.sampling, of the burst over group path of store d
sampling(d, path) ==
    [ x |-> BurstGrpOf(d, path).gridSamplingRange,
      y |-> BurstGrpOf(d, path).gridSamplingAzimuth,
      units |-> "s" ]

\* The store with variable correction of the burst group path replaced
StoreWith(d, path, correction, field) ==
    [d EXCEPT !.groups =
        [i \in 1..Len(d.groups) |->
            IF d.groups[i].name # path[1] THEN d.groups[i]
            ELSE [d.groups[i] EXCEPT !.groups =
                    [j \in 1..Len(d.groups[i].groups) |->
                        IF d.groups[i].groups[j].name # path[2]
                        THEN d.groups[i].groups[j]
                        ELSE [d.groups[i].groups[j] EXCEPT
                                !.variables[correction] = field]]]]]

\* A slip: field would be a view of the variable in the store, and field *= k
\* would scale the stored values
StoreAfterScalingInPlace(d, path, correction, k) ==
    StoreWith(d, path, correction, Scaled(BurstGrpOf(d, path).variables[correction], k))

\* The store after field *= k: np.asarray(self._grp[correction]) reads the
\* variable into an array of its own, the stored values stay as they are
StoreAfterScaling(d, path, correction, k) == d

\* self._grp.set_auto_mask(set_auto_mask): the masking mode of the burst group
\* path becomes value and stays until it is set again
SetAutoMaskSkipped(masks, path, value) == masks
grp_set_auto_mask(masks, path, value) == [masks EXCEPT ![path] = value]

\* The fill value of the 2-D variables.  In the products of the model it is
\* the number held by the first cell of the height of burst 1 (a cell that
\* was never written); the azimuth and range axes hold no fill value.
FillValue == StoredValue(1, "height", 1, 1)

\* self._grp[correction] read whole under the masking mode mode: in masked
\* mode a masked array, whose mask marks the cells that hold the fill value,
\* else the plain array; the data are the stored values in both
Variable__array__(values, correction, mode) ==
    [ data |-> values,
      mask |-> IF mode /\ correction \notin AxisVars
               THEN {c \in UNION {{<<i, j>> : j \in DOMAIN values[i]} : i \in DOMAIN values} :
                        values[c[1]][c[2]] = FillValue}
               ELSE {} ]

\* np.asarray(a): the plain array of the data; the mask of a masked array is
\* dropped and a masked cell holds the value stored in it
np_asarray(a) == a.data

\* One read of a variable of a burst group, as the log of a call holds it:
\* requested is the set_auto_mask the read was called with and mode the
\* masking mode of the group when the variable was read
ReadEntry(path, correction, requested, mode) ==
    [grp |-> path, var |-> correction, requested |-> requested, mode |-> mode]

\* Lines 572-583 of _get_etad_param, with the group in masking mode mode: the
\* array returned and the store after the call
FieldOf(d, burst, correction, mode, transpose, meter) ==
    LET k == IF endswith_Az(correction)
             THEN AzimuthFactor(burst.daz_m, sampling(d, burst.grp).y)
             ELSE HalfSpeedOfLight
    IN  Only({
          Only({
            Only({[ result |-> IF ~meter THEN field1
                               ELSE IF correction \in AxisVars
                               THEN [i \in 1..Len(field1) |->
                                       Times(<<field1[i], 0>>, k)]
                               ELSE Scaled(field1, k),
                    ds |-> IF meter THEN StoreAfterScaling(d, burst.grp, correction, k)
                           ELSE d ]
                  : field1 \in {IF transpose /\ correction \notin AxisVars
                                THEN Transpose(field0) ELSE field0}})
            : field0 \in {np_asarray(Variable__array__(values, correction, mode))}})
          : values \in {BurstGrpOf(d, burst.grp).variables[correction]}})

\* Sentinel1EtadBurst._get_etad_param on store d with the masking modes masks:
\* the outcome, the store and the masking modes after the call, and the reads
\* of the call.  The mode of the group is set before the read and stays.
_get_etad_param(d, masks, burst, correction, set_auto_mask, transpose, meter) ==
    IF correction \notin DOMAIN BurstGrpOf(d, burst.grp).variables
    THEN [ok |-> FALSE, result |-> "AssertionError", ds |-> d, auto_mask |-> masks,
          reads |-> <<>>]
    ELSE Only({
           Only({[ok |-> TRUE,
                  reads |-> <<ReadEntry(burst.grp, correction, set_auto_mask,
                                        masks1[burst.grp])>>,
                  result |-> field.result,
                  ds |-> field.ds,
                  auto_mask |-> masks1]
                 : field \in {FieldOf(d, burst, correction, masks1[burst.grp],
                                      transpose, meter)}})
           : masks1 \in {grp_set_auto_mask(masks, burst.grp, set_auto_mask)}})

\* Sentinel1EtadBurst.get_burst_grid: azimuth and range, both read masked
get_burst_grid(d, masks, burst) ==
    Only({
      IF ~a.ok THEN a
      ELSE Only({
             IF ~r.ok THEN r
             ELSE [ok |-> TRUE, result |-> <<a.result, r.result>>, ds |-> r.ds,
                   auto_mask |-> r.auto_mask, reads |-> a.reads \o r.reads]
             : r \in {_get_etad_param(a.ds, a.auto_mask, burst, "range",
                                      TRUE, TRUE, FALSE)}})
      : a \in {_get_etad_param(d, masks, burst, "azimuth", TRUE, TRUE, FALSE)}})

\* Sentinel1EtadBurst.get_lat_lon_height: lats, lons and height, read masked
get_lat_lon_height(d, masks, burst, transpose) ==
    Only({
      IF ~lats.ok THEN lats
      ELSE Only({
             IF ~lons.ok THEN lons
             ELSE Only({
                    IF ~h.ok THEN h
                    ELSE [h EXCEPT !.result = <<lats.result, lons.result, h.result>>,
                                   !.reads = lats.reads \o lons.reads \o @]
                    : h \in {_get_etad_param(lons.ds, lons.auto_mask, burst,
                                             "height", TRUE, transpose, FALSE)}})
             : lons \in {_get_etad_param(lats.ds, lats.auto_mask, burst, "lons",
                                         TRUE, transpose, FALSE)}})
      : lats \in {_get_etad_param(d, masks, burst, "lats", TRUE, transpose, FALSE)}})

\* corner_list of get_footprint: (row, column) indices, -1 the last
CornerListCrossed == << <<0, 0>>, <<-1, -1>>, <<0, -1>>, <<-1, 0>> >>
corner_list == << <<0, 0>>, <<0, -1>>, <<-1, -1>>, <<-1, 0>> >>

\* a[corner] for a 2-D array: None when an index is out of the array
AtCorner(a, corner) ==
    LET row == IF corner[1] < 0 THEN corner[1] + Len(a) + 1 ELSE corner[1] + 1
        col == IF row \in 1..Len(a)
               THEN (IF corner[2] < 0 THEN corner[2] + Len(a[row]) + 1
                     ELSE corner[2] + 1)
               ELSE 0
    IN  IF row \in 1..Len(a) /\ col \in 1..Len(a[row]) THEN Some(a[row][col])
        ELSE None

\* shapely Polygon(shell): the exterior ring, closed with its first vertex
\* when the shell is not closed
Polygon(shell) ==
    IF shell[1] = shell[Len(shell)] THEN shell ELSE Append(shell, shell[1])

\* Sentinel1EtadBurst.get_footprint
get_footprint(d, masks, burst) ==
    Only({
      IF ~g.ok THEN g
      ELSE LET lats == g.result[1]
               lons == g.result[2]
               heights == g.result[3]
           IN  IF \E k \in 1..Len(corner_list) :
                     \/ AtCorner(lats, corner_list[k]) = None
                     \/ AtCorner(lons, corner_list[k]) = None
                     \/ AtCorner(heights, corner_list[k]) = None
               THEN [g EXCEPT !.ok = FALSE, !.result = "IndexError"]
               ELSE [g EXCEPT !.result =
                       Polygon([k \in 1..Len(corner_list) |->
                                  <<AtCorner(lons, corner_list[k])[1],
                                    AtCorner(lats, corner_list[k])[1],
                                    AtCorner(heights, corner_list[k])[1]>>])]
      : g \in {get_lat_lon_height(d, masks, burst, TRUE)}})

\* burst.get_footprint()
GetFootprint(burst) ==
    \E r \in {get_footprint(ds, auto_mask, burst)} :
        /\ ds' = r.ds
        /\ auto_mask' = r.auto_mask
        /\ ret' = [op |-> "Sentinel1EtadBurst.get_footprint", self |-> burst,
                   ok |-> r.ok, result |-> r.result]
        /\ UNCHANGED <<annot, threads, burst_catalogue, swath_cache, burst_cache,
                       constructed, ds0>>

\* The get_<name>_correction methods of Sentinel1EtadBurst: prm_list of each
\* (the dimensions in the order of the dict) and the name it tags the record with
CorrectionMethodsOneTag ==
    [n \in {"tropospheric", "ionospheric", "geodetic", "bistatic", "doppler",
            "fmrate", "sum"} |->
        [prm_list |->
            IF n \in {"tropospheric", "ionospheric", "doppler"}
            THEN << <<"x", "sumOfCorrectionsRg">> >>
            ELSE IF n \in {"bistatic", "fmrate"}
            THEN << <<"y", "sumOfCorrectionsAz">> >>
            ELSE << <<"x", "sumOfCorrectionsRg">>, <<"y", "sumOfCorrectionsAz">> >>,
         name |-> "Sum"]]
CorrectionMethods ==
    [ tropospheric |-> [prm_list |-> << <<"x", "troposphericCorrectionRg">> >>,
                        name |-> "tropospheric"],
      ionospheric |-> [prm_list |-> << <<"x", "ionosphericCorrectionRg">> >>,
                       name |-> "ionospheric"],
      geodetic |-> [prm_list |-> << <<"x", "geodeticCorrectionRg">>,
                                    <<"y", "geodeticCorrectionAz">> >>,
                    name |-> "geodetic"],
      bistatic |-> [prm_list |-> << <<"y", "bistaticCorrectionAz">> >>,
                    name |-> "bistatic"],
      doppler |-> [prm_list |-> << <<"x", "dopplerRangeShiftRg">> >>,
                   name |-> "Doppler"],
      fmrate |-> [prm_list |-> << <<"y", "fmMismatchCorrectionAz">> >>,
                  name |-> "FM rate"],
      sum |-> [prm_list |-> << <<"x", "sumOfCorrectionsRg">>,
                               <<"y", "sumOfCorrectionsAz">> >>,
               name |-> "Sum"] ]

\* the names for which getattr(self, f'get_{name}_correction') finds a method
HasCorrectionMethodButSum(name) == name \in DOMAIN CorrectionMethods \ {"sum"}
HasCorrectionMethod(name) == name \in DOMAIN CorrectionMethods

\* Sentinel1EtadBurst._core_get_correction from entry k of prm_list on;
\* correction holds the fields read so far
RECURSIVE _core_get_correction(_, _, _, _, _, _, _, _, _)
_core_get_correction(d, masks, burst, prm_list, k, correction, set_auto_mask, transpose, meter) ==
    IF k > Len(prm_list)
    THEN [ok |-> TRUE, ds |-> d, auto_mask |-> masks, reads |-> <<>>,
          result |-> [correction EXCEPT !.unit = IF meter THEN "m" ELSE "s"]]
    ELSE Only({
           IF ~r.ok THEN r
           ELSE Only({[rest EXCEPT !.reads = r.reads \o @] :
                      rest \in {_core_get_correction(
                                    r.ds, r.auto_mask, burst, prm_list, k + 1,
                                    [correction EXCEPT
                                        !.dims = Append(@, prm_list[k][1]),
                                        !.fields = Append(@, r.result)],
                                    set_auto_mask, transpose, meter)}})
           : r \in {_get_etad_param(d, masks, burst, prm_list[k][2],
                                    set_auto_mask, transpose, meter)}})

\* Sentinel1EtadBurst.get_correction: the record holds the dimensions read
\* (dims) with the array of each (fields), the unit and the name
get_correction(d, masks, burst, name, set_auto_mask, transpose, meter) ==
    IF ~HasCorrectionMethod(name)
    THEN [ok |-> FALSE, result |-> "ValueError", ds |-> d, auto_mask |-> masks,
          reads |-> <<>>]
    ELSE LET method == CorrectionMethods[name]
         IN  Only({
               IF ~r.ok THEN r
               ELSE [r EXCEPT !.result = [@ EXCEPT !.name = method.name]]
               : r \in {_core_get_correction(
                            d, masks, burst, method.prm_list, 1,
                            [dims |-> <<>>, fields |-> <<>>, unit |-> "", name |-> ""],
                            set_auto_mask, transpose, meter)}})

\* burst.get_correction(name, set_auto_mask, transpose, meter)
GetCorrection(burst, name, set_auto_mask, transpose, meter) ==
    \E r \in {get_correction(ds, auto_mask, burst, name, set_auto_mask, transpose, meter)} :
        /\ ds' = r.ds
        /\ auto_mask' = r.auto_mask
        /\ ret' = [op |-> "Sentinel1EtadBurst.get_correction", self |-> burst,
                   name |-> name, set_auto_mask |-> set_auto_mask,
                   transpose |-> transpose, meter |-> meter,
                   ok |-> r.ok, result |-> r.result]
        /\ UNCHANGED <<annot, threads, burst_catalogue, swath_cache, burst_cache,
                       constructed, ds0>>

\* ------------------------------- _get_etad_param on the threads of a caller

NumThreads == 2   \* the threads of the caller

Threads == 1..NumThreads

\* A thread is in no call (idle), has entered _get_etad_param and is before
\* self._grp.set_auto_mask (line 570), is before the read of the variable
\* (line 572), or has returned (done); mode is the masking mode the variable
\* was read under.  serialized: the caller lets no retrieval start while
\* another one is under way (one lock around every call).
NoRetrieval(serialized) ==
    [ serialized |-> serialized,
      calls |-> [t \in Threads |->
                   [pc |-> "idle", self |-> None, correction |-> "",
                    set_auto_mask |-> FALSE, mode |-> FALSE]] ]

InCall(t) == threads.calls[t].pc \in {"set_auto_mask", "read"}

\* thread t calls burst._get_etad_param(correction, set_auto_mask): the
\* assertion of line 568 passes
EnterGetEtadParam(t, burst, correction, set_auto_mask) ==
    /\ ~InCall(t)
    /\ threads.serialized => \A u \in Threads : ~InCall(u)
    /\ correction \in DOMAIN BurstGrp(burst.grp).variables
    /\ threads' = [threads EXCEPT !.calls[t] =
                      [pc |-> "set_auto_mask", self |-> burst,
                       correction |-> correction,
                       set_auto_mask |-> set_auto_mask, mode |-> FALSE]]
    /\ UNCHANGED <<annot, ds, auto_mask, burst_catalogue, swath_cache, burst_cache,
                   constructed, ds0, ret>>

\* thread t executes self._grp.set_auto_mask(set_auto_mask)
ThreadSetAutoMask(t) ==
    /\ threads.calls[t].pc = "set_auto_mask"
    /\ auto_mask' = grp_set_auto_mask(auto_mask, threads.calls[t].self.grp,
                                      threads.calls[t].set_auto_mask)
    /\ threads' = [threads EXCEPT !.calls[t].pc = "read"]
    /\ UNCHANGED <<annot, ds, burst_catalogue, swath_cache, burst_cache,
                   constructed, ds0, ret>>

\* thread t reads the variable under the mode the group is in, and returns
\* (transpose and meter are the defaults)
ThreadRead(t) ==
    /\ threads.calls[t].pc = "read"
    /\ \E call \in {threads.calls[t]} :
       \E mode \in {auto_mask[call.self.grp]} :
       \E field \in {FieldOf(ds, call.self, call.correction, mode, TRUE, FALSE)} :
          /\ threads' = [threads EXCEPT !.calls[t].pc = "done",
                                        !.calls[t].mode = mode]
          /\ ds' = field.ds
          /\ ret' = [op |-> "Sentinel1EtadBurst._get_etad_param", thread |-> t,
                     self |-> call.self, correction |-> call.correction,
                     set_auto_mask |-> call.set_auto_mask, mode |-> mode,
                     ok |-> TRUE, result |-> field.result]
    /\ UNCHANGED <<annot, auto_mask, burst_catalogue, swath_cache, burst_cache,
                   constructed, ds0>>

\* ------------------------------------------- Sentinel1EtadSwath._burst_merger

\* num_lines = np.round((t1-t0) / dt).astype(np.int)+1
NumLinesWithoutLast(t0, t1, dt) == RoundDiv(t1 - t0, dt)
NumLines(t0, t1, dt) == RoundDiv(t1 - t0, dt) + 1

\* the two assertions of the write loop
SamplingUnchecked(dt, y) == TRUE
SameAzimuthSampling(dt, y) == dt = y
SameRangeStart(first_rg0, rg0) == first_rg0 = rg0

\* np.zeros((num_lines, num_samples))
Zeros(num_lines, num_samples) ==
    [r \in 1..num_lines |-> [j \in 1..num_samples |-> <<0, 0>>]]

\* The row a line index addresses: a negative index counts from the end
WrappedIndex(index, num_lines) == IF index < 0 THEN index + num_lines ELSE index

\* debursted_var[line_index_, :] = var_ : the value is broadcast to the shape
\* (len(line_index_), num_samples) or ValueError is raised; an index outside
\* of [-num_lines, num_lines) raises IndexError; of the lines written to one
\* row the last stays
AssignRows(debursted_var, num_samples, line_index_, var_) ==
    LET num_lines == Len(debursted_var)
        n == Len(line_index_)
        a == Len(var_)
        b == IF a = 0 THEN 0 ELSE Len(var_[1])
        hits(r) == {k \in 1..n : WrappedIndex(line_index_[k], num_lines) = r - 1}
        last(r) == CHOOSE k \in hits(r) : \A h \in hits(r) : h <= k
    IN  IF ~((a = n \/ a = 1) /\ (b = num_samples \/ b = 1))
        THEN [ok |-> FALSE, result |-> "ValueError"]
        ELSE IF \E k \in 1..n :
                   line_index_[k] < -num_lines \/ line_index_[k] >= num_lines
        THEN [ok |-> FALSE, result |-> "IndexError"]
        ELSE [ok |-> TRUE,
              result |->
                [r \in 1..num_lines |->
                    IF hits(r) = {} THEN debursted_var[r]
                    ELSE [j \in 1..num_samples |->
                            var_[IF a = 1 THEN 1 ELSE last(r)]
                                [IF b = 1 THEN 1 ELSE j]]]]

\* line_index_ = np.round((az_time_ - t0) / dt).astype(np.int)
LineIndexFloor(az_time_, t0, dt) ==
    [i \in 1..Len(az_time_) |-> (az_time_[i] - t0) \div dt]
line_index_(az_time_, t0, dt) ==
    [i \in 1..Len(az_time_) |-> RoundDiv(az_time_[i] - t0, dt)]

\* The write loop from burst k of the list on; st holds the caches, the store,
\* the masking modes and debursted_var as they are before burst k.  An error
\* ends the call; what the call did before it stays.
RECURSIVE WriteBursts(_, _, _, _, _, _, _)
WriteBursts(st, self, call, index_list, k, t0, first_burst) ==
    IF k > Len(index_list) THEN [st EXCEPT !.ok = TRUE]
    ELSE
    LET dt == sampling(st.ds, first_burst.grp).y
    IN
    Only({
      LET st1 == [st EXCEPT !.cache = g.cache, !.made = g.made]
          burst_ == g.result
      IN  IF ~g.ok THEN [st1 EXCEPT !.result = g.result]
          ELSE IF ~SameAzimuthSampling(dt, sampling(st.ds, burst_.grp).y)
          THEN [st1 EXCEPT !.result = "AssertionError"]
          ELSE IF ~SameRangeStart(BurstGrpOf(st.ds, first_burst.grp).gridStartRangeTime0,
                                  BurstGrpOf(st.ds, burst_.grp).gridStartRangeTime0)
          THEN [st1 EXCEPT !.result = "AssertionError"]
          ELSE
          Only({
            IF ~grid.ok
            THEN [st1 EXCEPT !.result = grid.result, !.ds = grid.ds,
                             !.auto_mask = grid.auto_mask]
            ELSE
            Only({
              IF ~var_.ok
              THEN [st1 EXCEPT !.result = var_.result, !.ds = var_.ds,
                               !.auto_mask = var_.auto_mask]
              ELSE
              Only({
                IF ~w.ok
                THEN [st1 EXCEPT !.result = w.result, !.ds = var_.ds,
                                 !.auto_mask = var_.auto_mask]
                ELSE Only({WriteBursts(next, self, call, index_list, k + 1, t0,
                                       first_burst) :
                           next \in {[st1 EXCEPT !.result = w.result,
                                                 !.ds = var_.ds,
                                                 !.auto_mask = var_.auto_mask,
                                                 !.reads = @ \o grid.reads
                                                             \o var_.reads]}})
                : w \in {AssignRows(st.result,
                                    BurstGrpOf(st.ds, first_burst.grp).rangeExtent,
                                    line_index_(grid.result[1], t0, dt), var_.result)}})
              : var_ \in {_get_etad_param(grid.ds, grid.auto_mask, burst_,
                                          call.burst_var, call.set_auto_mask,
                                          call.transpose, call.meter)}})
            : grid \in {get_burst_grid(st1.ds, st1.auto_mask, burst_)}})
      : g \in {Sentinel1EtadSwath__getitem__(st.cache, st.made, self, index_list[k])}})

\* burst_index_list[0] and burst_index_list[-1]; None for a list without
\* items, of which the first read raises IndexError
EndItemsOrFirstBurst(list) ==
    IF list = <<>> THEN Some(<<1, 1>>) ELSE Some(<<list[1], list[Len(list)]>>)
EndItems(list) ==
    IF list = <<>> THEN None ELSE Some(<<list[1], list[Len(list)]>>)

\* a[index] of a masked or plain 1-D array a: the element, masked when the
\* mask marks it
ItemOf(a, index) == IF index \in a.mask THEN "masked" ELSE a.data[index]

\* Sentinel1EtadSwath._burst_merger on store d, the caches and the masking
\* modes given: [ok, result, cache, made, ds, auto_mask, reads], result the
\* dict returned or the error raised, reads the reads of burst variables in
\* their order.  The reads of the window (first_burst._grp['azimuth'][0] and
\* last_burst._grp['azimuth'][-1]) set no masking mode: they are made under
\* the mode the group is in.  call holds the arguments: burst_var,
\* burst_index_list (None or Some(list)), azimuthTimeMin and azimuthTimeMax
\* (None or Some(instant)), set_auto_mask, transpose and meter.
_burst_merger(d, cache, made, masks, self, call) ==
    LET burst_index_list == IF call.burst_index_list = None THEN burst_list(self)
                            ELSE call.burst_index_list[1]
        st0 == [ok |-> FALSE, result |-> "IndexError", cache |-> cache,
                made |-> made, ds |-> d, auto_mask |-> masks, reads |-> <<>>]
    IN
    IF EndItems(burst_index_list) = None THEN st0
    ELSE
    Only({
      IF ~f.ok THEN [st0 EXCEPT !.cache = f.cache]
      ELSE
      Only({
        LET st2 == [st0 EXCEPT !.cache = l.cache, !.made = l.made]
            first_burst == f.result
            last_burst == l.result
            azimuth0 == Variable__array__(
                            BurstGrpOf(d, first_burst.grp).variables["azimuth"],
                            "azimuth", masks[first_burst.grp])
            azimuth1 == Variable__array__(
                            BurstGrpOf(d, last_burst.grp).variables["azimuth"],
                            "azimuth", masks[last_burst.grp])
            t0 == IF call.azimuthTimeMin = None THEN ItemOf(azimuth0, 1)
                  ELSE call.azimuthTimeMin[1]
            t1 == IF call.azimuthTimeMax = None
                  THEN ItemOf(azimuth1, Len(azimuth1.data))
                  ELSE call.azimuthTimeMax[1]
            window_reads ==
                (IF call.azimuthTimeMin # None THEN <<>>
                 ELSE <<ReadEntry(first_burst.grp, "azimuth", call.set_auto_mask,
                                  masks[first_burst.grp])>>)
                \o (IF call.azimuthTimeMax # None THEN <<>>
                    ELSE <<ReadEntry(last_burst.grp, "azimuth", call.set_auto_mask,
                                     masks[last_burst.grp])>>)
            dt == sampling(d, first_burst.grp).y
            num_lines == NumLines(t0, t1, dt)
            num_samples == BurstGrpOf(d, first_burst.grp).rangeExtent
        IN  IF ~l.ok THEN st2
            ELSE IF num_lines < 0
            THEN [st2 EXCEPT !.result = "ValueError", !.reads = window_reads]
            ELSE
            Only({
              IF ~w.ok THEN w
              ELSE [w EXCEPT !.result =
                      [ burst_var |-> call.burst_var,
                        data |-> w.result,
                        first_azimuth_time |-> t0,
                        first_slant_range_time |->
                            BurstGrpOf(d, first_burst.grp).gridStartRangeTime0,
                        sampling |-> sampling(d, first_burst.grp) ]]
              : w \in {Only({WriteBursts(st3, self, call, burst_index_list, 1, t0,
                                         first_burst) :
                             st3 \in {[st2 EXCEPT
                                          !.result = Zeros(num_lines, num_samples),
                                          !.reads = window_reads]}})}})
        : l \in {Sentinel1EtadSwath__getitem__(
                     f.cache, f.made, self, EndItems(burst_index_list)[1][2])}})
      : f \in {Sentinel1EtadSwath__getitem__(cache, made, self,
                                              EndItems(burst_index_list)[1][1])}})

\* The burst objects a caller can hold: those Sentinel1EtadSwath.__getitem__
\* returned
BurstObjects == {burst_cache[i].obj : i \in 1..Len(burst_cache)}

\* swath._burst_merger(burst_var, burst_index_list, azimuthTimeMin,
\* azimuthTimeMax, set_auto_mask, transpose, meter)
BurstMerger(self, call) ==
    \E r \in {_burst_merger(ds, burst_cache, constructed.burst, auto_mask, self, call)} :
        /\ BurstsWithinBound(r.made)
        /\ burst_cache' = r.cache
        /\ constructed' = [constructed EXCEPT !.burst = r.made]
        /\ ds' = r.ds
        /\ auto_mask' = r.auto_mask
        /\ ret' = [op |-> "Sentinel1EtadSwath._burst_merger", self |-> self,
                   call |-> call, ok |-> r.ok, result |-> r.result]
        /\ UNCHANGED <<annot, threads, burst_catalogue, swath_cache, ds0>>

\* ------------------------------------- Sentinel1EtadSwath.merge_sum_correction

\* The arguments of a call of _burst_merger that passes no window
MergeCall(burst_var, burst_index_list, set_auto_mask, transpose, meter) ==
    [burst_var |-> burst_var, burst_index_list |-> burst_index_list,
     azimuthTimeMin |-> None, azimuthTimeMax |-> None,
     set_auto_mask |-> set_auto_mask, transpose |-> transpose, meter |-> meter]

\* The keys merge_sum_correction reads from dd after the merges:
\* dd[key] = dd[key] raises KeyError for a key dd does not hold
KeysReadBack == <<"sampling", "first_azimuth_time", "first_slant_range_time">>
MissingKeys(dd, keys) == {k \in 1..Len(keys) : keys[k] \notin DOMAIN dd}

\* Sentinel1EtadSwath.merge_sum_correction: the merges of sumOfCorrectionsRg
\* and sumOfCorrectionsAz over burst_index_list, those of lats and lons over
\* the default selection (burst_index_list is not passed to them), then the
\* keys read back.  dd['lats'] and dd['lons'] hold the dicts _burst_merger
\* returned.  [ok, result, cache, made, ds, auto_mask] as for _burst_merger.
merge_sum_correction(d, cache, made, masks, self, burst_index_list, set_auto_mask, transpose, meter) ==
    Only({
      IF ~x.ok THEN x
      ELSE
      Only({
        IF ~y.ok THEN y
        ELSE
        Only({
          IF ~lats.ok THEN lats
          ELSE
          Only({
            IF ~lons.ok THEN lons
            ELSE LET dd == [x |-> x.result.data, y |-> y.result.data,
                            unit |-> IF meter THEN "m" ELSE "s",
                            lats |-> lats.result, lons |-> lons.result]
                 IN  IF MissingKeys(dd, KeysReadBack) # {}
                     THEN [lons EXCEPT !.ok = FALSE, !.result = "KeyError"]
                     ELSE [lons EXCEPT !.result = dd]
            : lons \in {_burst_merger(lats.ds, lats.cache, lats.made, lats.auto_mask,
                                      self, MergeCall("lons", None, set_auto_mask,
                                                      transpose, FALSE))}})
          : lats \in {_burst_merger(y.ds, y.cache, y.made, y.auto_mask, self,
                                    MergeCall("lats", None, set_auto_mask,
                                              transpose, FALSE))}})
        : y \in {_burst_merger(x.ds, x.cache, x.made, x.auto_mask, self,
                               MergeCall("sumOfCorrectionsAz", burst_index_list,
                                         set_auto_mask, transpose, meter))}})
      : x \in {_burst_merger(d, cache, made, masks, self,
                             MergeCall("sumOfCorrectionsRg", burst_index_list,
                                       set_auto_mask, transpose, meter))}})

\* swath.merge_sum_correction(burst_index_list, set_auto_mask, transpose, meter);
\* call holds the arguments as the first merge gets them
MergeSumCorrection(self, burst_index_list, set_auto_mask, transpose, meter) ==
    \E r \in {merge_sum_correction(ds, burst_cache, constructed.burst, auto_mask, self,
                                   burst_index_list, set_auto_mask, transpose, meter)} :
        /\ BurstsWithinBound(r.made)
        /\ burst_cache' = r.cache
        /\ constructed' = [constructed EXCEPT !.burst = r.made]
        /\ ds' = r.ds
        /\ auto_mask' = r.auto_mask
        /\ ret' = [op |-> "Sentinel1EtadSwath.merge_sum_correction", self |-> self,
                   call |-> MergeCall("sumOfCorrectionsRg", burst_index_list,
                                      set_auto_mask, transpose, meter),
                   ok |-> r.ok, result |-> r.result]
        /\ UNCHANGED <<annot, threads, burst_catalogue, swath_cache, ds0>>

\* ------------------------------------------------ Sentinel1Etad._swath_merger

\* Sentinel1Etad.grid_sampling
grid_sampling ==
    [x |-> annot.gridSampling.range, y |-> annot.gridSampling.azimuth, unit |-> "s"]

\* The rows or columns slice(start, stop) selects of an axis of n: a negative
\* bound counts from the end, and both are cut to the axis.  <<first, last>>,
\* counted from 1; nothing is selected when last < first.
SliceBounds(start, stop, n) ==
    LET cut(v) == IF v < 0 THEN (IF v + n < 0 THEN 0 ELSE v + n)
                  ELSE IF v > n THEN n ELSE v
    IN  <<cut(start) + 1, cut(stop)>>

\* img[slice_y, slice_x] = value: value is broadcast to the shape selected or
\* ValueError is raised
AssignSlice(img, slice_y, slice_x, value) ==
    LET ny == IF slice_y[2] < slice_y[1] THEN 0 ELSE slice_y[2] - slice_y[1] + 1
        nx == IF slice_x[2] < slice_x[1] THEN 0 ELSE slice_x[2] - slice_x[1] + 1
        a == Len(value)
        b == IF a = 0 THEN 0 ELSE Len(value[1])
    IN  IF ~((a = ny \/ a = 1) /\ (b = nx \/ b = 1))
        THEN [ok |-> FALSE, result |-> "ValueError"]
        ELSE [ok |-> TRUE,
              result |->
                [r \in 1..Len(img) |->
                    [c \in 1..Len(img[r]) |->
                        IF /\ r >= slice_y[1] /\ r <= slice_y[2]
                           /\ c >= slice_x[1] /\ c <= slice_x[2]
                        THEN value[IF a = 1 THEN 1 ELSE r - slice_y[1] + 1]
                                  [IF b = 1 THEN 1 ELSE c - slice_x[1] + 1]
                        ELSE img[r][c]]]]

\* The loop over the swaths from swath k of the list on; st holds the caches,
\* the store, the masking modes and img as they are before swath k
RECURSIVE SwathLoop(_, _, _, _)
SwathLoop(st, names, k, burst_index_list) ==
    IF k > Len(names) THEN [st EXCEPT !.ok = TRUE]
    ELSE
    Only({
      IF ~g.ok
      THEN [st EXCEPT !.result = g.result, !.swath_cache = g.cache,
                      !.swath_made = g.made]
      ELSE
      Only({
        LET st1 == [st EXCEPT !.swath_cache = g.cache, !.swath_made = g.made,
                              !.cache = dd_.cache, !.made = dd_.made,
                              !.ds = dd_.ds, !.auto_mask = dd_.auto_mask]
        IN  IF ~dd_.ok THEN [st1 EXCEPT !.result = dd_.result]
            ELSE
            Only({
              IF ~w.ok THEN [st1 EXCEPT !.result = w.result]
              ELSE Only({SwathLoop(next, names, k + 1, burst_index_list) :
                         next \in {[st1 EXCEPT !.result = w.result]}})
              : w \in {LET line_ofs == RoundDiv(dd_.result.first_azimuth_time,
                                                grid_sampling.y)
                           sample_ofs == RoundDiv(dd_.result.first_slant_range_time,
                                                  grid_sampling.x)
                           rows == Len(dd_.result.x)
                           cols == IF rows = 0 THEN 0 ELSE Len(dd_.result.x[1])
                           width == IF st.result = <<>> THEN 0 ELSE Len(st.result[1])
                       IN  AssignSlice(st.result,
                                       SliceBounds(line_ofs, line_ofs + rows,
                                                   Len(st.result)),
                                       SliceBounds(sample_ofs, sample_ofs + cols,
                                                   width),
                                       dd_.result.x)}})
        : dd_ \in {merge_sum_correction(st.ds, st.cache, st.made, st.auto_mask,
                                        g.result, burst_index_list,
                                        TRUE, TRUE, FALSE)}})
      : g \in {Sentinel1Etad__getitem__(st.swath_cache, st.swath_made, names[k])}})

\* Sentinel1Etad._swath_merger on the state st (caches, store and masking
\* modes); swath_list_ and burst_index_list are None or Some(list).  The
\* azimuth times of the root are seconds from the reference of the product.
_swath_merger(st, burst_variable, swath_list_, burst_index_list) ==
    LET names == IF swath_list_ = None THEN swath_list ELSE swath_list_[1]
        sampling_ == grid_sampling
        num_samples == RoundDiv(st.ds.rangeTimeMax - st.ds.rangeTimeMin,
                                sampling_.x) + 1
        num_lines == RoundDiv(st.ds.azimuthTimeMax - st.ds.azimuthTimeMin,
                              sampling_.y) + 1
    IN  Only({SwathLoop(st0, names, 1, burst_index_list) :
              st0 \in {[st EXCEPT !.result = Zeros(num_lines, num_samples)]}})

\* etad._swath_merger(burst_variable, swath_list, burst_index_list)
SwathMerger(burst_variable, swath_list_, burst_index_list) ==
    \E r \in {_swath_merger([ok |-> FALSE, result |-> <<>>,
                             swath_cache |-> swath_cache,
                             swath_made |-> constructed.swath,
                             cache |-> burst_cache, made |-> constructed.burst,
                             ds |-> ds, auto_mask |-> auto_mask],
                            burst_variable, swath_list_, burst_index_list)} :
        /\ SwathsWithinBound(r.swath_made)
        /\ BurstsWithinBound(r.made)
        /\ swath_cache' = r.swath_cache
        /\ burst_cache' = r.cache
        /\ constructed' = [swath |-> r.swath_made, burst |-> r.made]
        /\ ds' = r.ds
        /\ auto_mask' = r.auto_mask
        /\ ret' = [op |-> "Sentinel1Etad._swath_merger",
                   burst_variable |-> burst_variable, swath_list |-> swath_list_,
                   burst_index_list |-> burst_index_list,
                   ok |-> r.ok, result |-> r.result]
        /\ UNCHANGED <<annot, threads, burst_catalogue, ds0>>

\* --------------------------------------------------- Sentinel1ProductName

\* Sentinel1ProductName(product_name): the fields of the stem; the empty field
\* of an SLC name is dropped and its product type becomes "SLC_"
Sentinel1ProductName(product_name) ==
    LET parts == product_name.stem
    IN  IF Len(parts) = 10 /\ "SLC" \in Range(parts[3])
        THEN [i \in 1..9 |-> IF i = 3 THEN <<"SLC", "_">>
                             ELSE IF i < 3 THEN parts[i] ELSE parts[i + 1]]
        ELSE parts

\* to_annotation(value): the second character of typepol is replaced
to_annotation(parts, value) == [parts EXCEPT ![4] = [@ EXCEPT ![2] = value]]

\* product_name.crc = ''
set_crc(parts, value) == [parts EXCEPT ![9] = value]

\* recompose(with_suffix=False)
recompose(parts) == Join(parts)

\* One atom of a regular expression against one atom of a text: "[AD]" is a
\* character class, every other atom of a product name stands for itself
AtomMatches(p, t) == IF p = "[AD]" THEN t \in {"A", "D"} ELSE p = t

\* pandas str.contains(pat, regex=True) on one text: re.search
str_contains(text, pat) ==
    \E off \in 0..(Len(text) - Len(pat)) :
        \A i \in 1..Len(pat) : AtomMatches(pat[i], text[off + i])

\* ------------------------------------------------------------- query_burst

\* DataFrame.sort_values(by=['azimuthTimeMin']): the rows by non-decreasing
\* azimuthTimeMin.  The default kind, quicksort, is not stable: rows of equal
\* azimuthTimeMin come in an order the caller cannot rely on.
sort_values(rows) ==
    LET n == Len(rows)
        perms == {p \in [1..n -> 1..n] :
                    /\ \A i, j \in 1..n : i # j => p[i] # p[j]
                    /\ \A i \in 1..(n - 1) :
                          rows[p[i]].azimuthTimeMin <= rows[p[i + 1]].azimuthTimeMin}
    IN  {[i \in 1..n |-> rows[p[i]]] : p \in perms}

\* Series.isin(values)
isin(value, values) == value \in Range(values)

\* The row of label ix (the alignment of two Series on their index)
RowOfLabel(rows, ix) == rows[CHOOSE i \in 1..Len(rows) : rows[i].ix = ix]

\* Sentinel1Etad.query_burst after its first statement: df is the sorted
\* catalogue.  first_time and last_time are None or Some(instant),
\* product_name is None or Some(name); swath is None, Some([str |-> identifier])
\* or Some([list |-> identifiers]).
query_burst_sorted(catalogue, df, first_time, product_name, last_time, swath) ==
    LET first_time_ == IF first_time = None THEN df[1].azimuthTimeMin
                       ELSE first_time[1]
        last_time_ == IF last_time = None THEN df[Len(df)].azimuthTimeMax
                      ELSE last_time[1]
        filter_ == recompose(set_crc(to_annotation(
                       Sentinel1ProductName(product_name[1]), "[AD]"), <<>>))
        swath_ == IF swath = None THEN <<>>
                  ELSE IF "list" \in DOMAIN swath[1] THEN swath[1].list
                  ELSE <<swath[1].str>>
        ix0(row) ==
            /\ row.azimuthTimeMin >= first_time_
            /\ row.azimuthTimeMax <= last_time_
            /\ product_name # None =>
                   str_contains(RowOfLabel(catalogue, row.ix).productID, filter_)
            /\ swath # None => isin(row.swathID, swath_)
    IN  SelectSeq(df, ix0)

\* Sentinel1Etad.query_burst: the outcomes of one call.  A product without
\* bursts has no catalogue: None.sort_values raises AttributeError.
query_burst(first_time, product_name, last_time, swath) ==
    IF burst_catalogue = None
    THEN {[ok |-> FALSE, result |-> "AttributeError"]}
    ELSE {[ok |-> TRUE,
           result |-> query_burst_sorted(burst_catalogue[1], df, first_time,
                                         product_name, last_time, swath),
           df |-> df] :
            df \in sort_values(burst_catalogue[1])}

\* The catalogue after df = self.burst_catalogue.sort_values(...) of the
\* outcome r: sort_values returns a new DataFrame (inplace=False) and the rows
\* of self.burst_catalogue stay in their order
SortValuesInPlace(catalogue, r) == IF r.ok THEN Some(r.df) ELSE catalogue
AfterSortValues(catalogue, r) == catalogue

\* etad.query_burst(first_time, product_name, last_time, swath)
QueryBurst(first_time, product_name, last_time, swath) ==
    /\ \E r \in query_burst(first_time, product_name, last_time, swath) :
          /\ ret' = [op |-> "Sentinel1Etad.query_burst",
                     first_time |-> first_time,
                     product_name |-> product_name, last_time |-> last_time,
                     swath |-> swath, ok |-> r.ok, result |-> r.result]
          /\ burst_catalogue' = AfterSortValues(burst_catalogue, r)
    /\ UNCHANGED <<annot, threads, ds, auto_mask, swath_cache, burst_cache, constructed, ds0>>

\* ------------------------------------------- specification: indexing (SpecIndex)

\* The product of the indexing specification: NumSwaths swaths of
\* BurstsPerSwath bursts each, burst indices running across the swaths.
IndexBurst(sIndex, k) ==
    LET b == (k - 1) * NumSwaths + sIndex
    IN  [ pIndex |-> 1, sIndex |-> sIndex, bIndex |-> b, productID |-> ProductID(1),
          t0 |-> 4 * (b - 1), nlines |-> 3, dt |-> 2, rg0 |-> 0,
          tmax |-> 4 * (b - 1) + 4, data |-> FALSE ]

\* bursts in the order of the NetCDF file: by swath, then by burst
IndexLayout ==
    [i \in 1..(NumSwaths * BurstsPerSwath) |->
        IndexBurst(((i - 1) \div BurstsPerSwath) + 1, ((i - 1) % BurstsPerSwath) + 1)]

\* ... and in the order of acquisition, as the XML may list them
IndexLayoutByTime ==
    [i \in 1..(NumSwaths * BurstsPerSwath) |->
        IndexBurst(((i - 1) % NumSwaths) + 1, ((i - 1) \div NumSwaths) + 1)]

\* Sentinel1Etad.__init__ on a product given by the layout of its NetCDF file
\* and the order of its XML
Opened(layout, order) ==
    /\ ds = DatasetOf(layout)
    /\ auto_mask = RootSetAutoMask(ds, FALSE)
    /\ annot = AnnotationOf(order)
    /\ burst_catalogue = _init_burst_catalogue(annot)
    /\ swath_cache = <<>>
    /\ burst_cache = <<>>
    /\ constructed = [swath |-> <<>>, burst |-> <<>>]
    /\ ds0 = ds
    /\ ret = [op |-> "Sentinel1Etad.__init__", ok |-> TRUE]

\* The product after construction, in the hands of a caller of one thread
Constructed(layout, order) ==
    /\ Opened(layout, order)
    /\ threads = NoRetrieval(TRUE)

InitIndex == \E order \in {IndexLayout, IndexLayoutByTime} : Constructed(IndexLayout, order)

\* the burst indices a caller tries on a swath: its first burst and one that
\* the swath does not hold
ProbeBursts(self) ==
    LET l == burst_list(self) IN {l[1], 9999}

NextIndex ==
    \/ \E index \in Range(swath_list) \cup {"EW9"} : GetSwath(index)
    \/ \E self \in SwathObjects : \E b \in ProbeBursts(self) : GetBurst(self, b)
    \/ \E self \in SwathObjects : IterBursts(self)
    \/ iter_swaths(None)

SpecIndex == InitIndex /\ [][NextIndex]_vars

\* The number, among the objects constructed for its key, of an object
Generation(obj) == obj.id[Len(obj.id)]

\* C1: every successful facade[swathID] and swath[burstIndex] returns the
\* object that the first access with the same key returned, whatever was
\* accessed in between.  The first access with a key constructs the first
\* object of the key, so the claim is that no later object is ever returned.
C1_SameObjectAsFirstAccess ==
    (ret.op \in {"Sentinel1Etad.__getitem__", "Sentinel1EtadSwath.__getitem__"} /\ ret.ok)
        => Generation(ret.result) = 1

\* --------------------------------------- specification: queries (SpecQuery)

QueryBursts == 2   \* the most bursts of a product of the query specification
MaxTime == 2       \* its azimuth times are 0..MaxTime

\* A burst of a product of the query specification: burst bIndex of swath
\* sIndex and product pIndex, its lines at the instants t0..tmax
QueryBurst_(bIndex, sIndex, pIndex, t0, tmax) ==
    [ pIndex |-> pIndex, sIndex |-> sIndex, bIndex |-> bIndex,
      productID |-> ProductID(pIndex), t0 |-> t0, nlines |-> tmax - t0 + 1,
      dt |-> 1, rg0 |-> 0, tmax |-> tmax, data |-> FALSE ]

\* The products: none to QueryBursts bursts, each in one of two swaths, those
\* of the second swath of one of two products, over any interval of instants;
\* the XML lists them in any order of time
QueryLayouts ==
    UNION {[1..n -> {c \in [sIndex : 1..2, pIndex : 1..2, t0 : 0..MaxTime,
                                tmax : 0..MaxTime] :
                        c.t0 <= c.tmax /\ c.pIndex <= c.sIndex}] :
             n \in 0..QueryBursts}

InitQuery ==
    \E choice \in QueryLayouts :
        LET layout == [i \in 1..Len(choice) |->
                         QueryBurst_(i, choice[i].sIndex, choice[i].pIndex,
                                     choice[i].t0, choice[i].tmax)]
        IN  Constructed(layout, layout)

\* The arguments of the queries
QueryFirstTimes == {None} \cup {Some(t) : t \in 0..1}
QueryLastTimes == {None} \cup {Some(t) : t \in 1..MaxTime}
QueryProductNames ==
    {None, Some([stem |-> NameFields(1, "S", "CRC1"), suffix |-> ".SAFE"]),
     Some([stem |-> NameFields(2, "S", "CRC0"), suffix |-> ".SAFE"])}
QuerySwaths ==
    {None, Some([str |-> "IW1"]), Some([list |-> <<"IW2", "IW1">>])}

NextQuery ==
    \E first_time \in QueryFirstTimes, product_name \in QueryProductNames,
       last_time \in QueryLastTimes, swath \in QuerySwaths :
        QueryBurst(first_time, product_name, last_time, swath)

SpecQuery == InitQuery /\ [][NextQuery]_vars

\* The rows of the catalogue at rest (none when the product has no burst)
CatalogueRows == IF burst_catalogue = None THEN <<>> ELSE burst_catalogue[1]

IsQuery == ret.op = "Sentinel1Etad.query_burst"

\* A row passes the filters a query supplies: a filter that is not supplied
\* excludes no row
PassesSupplied(row, first_time, product_name, last_time, swath) ==
    /\ first_time # None => row.azimuthTimeMin >= first_time[1]
    /\ last_time # None => row.azimuthTimeMax <= last_time[1]
    /\ swath # None =>
          row.swathID \in (IF "list" \in DOMAIN swath[1] THEN Range(swath[1].list)
                           ELSE {swath[1].str})
    /\ product_name # None =>
          str_contains(row.productID,
                       recompose(set_crc(to_annotation(
                           Sentinel1ProductName(product_name[1]), "[AD]"), <<>>)))

MatchingRows ==
    {row \in Range(CatalogueRows) :
        PassesSupplied(row, ret.first_time, ret.product_name, ret.last_time,
                       ret.swath)}

\* C6: on a non-empty catalogue query_burst() without any filter returns
\* every row of the catalogue, by non-decreasing azimuthTimeMin.
C6_NoFilterReturnsWholeCatalogue ==
    (/\ IsQuery
     /\ burst_catalogue # None
     /\ ret.first_time = None /\ ret.last_time = None
     /\ ret.product_name = None /\ ret.swath = None)
        => /\ ret.ok
           /\ Len(ret.result) = Len(CatalogueRows)
           /\ Range(ret.result) = Range(CatalogueRows)
           /\ \A i \in 1..(Len(ret.result) - 1) :
                 ret.result[i].azimuthTimeMin <= ret.result[i + 1].azimuthTimeMin

\* C7: query_burst returns exactly the rows of the catalogue that pass every
\* filter the call supplies: none that fails one, all that pass all.
C7_ExactlyRowsPassingSuppliedFilters ==
    (IsQuery /\ burst_catalogue # None)
        => /\ ret.ok
           /\ Range(ret.result) = MatchingRows

\* C8: a query that no burst matches returns the empty subset and does not
\* fail, and query_burst(first_time=T, last_time=T) returns only bursts whose
\* azimuthTimeMin and azimuthTimeMax are both T.
C8_NoMatchIsEmptyNotFailure ==
    IsQuery
        => /\ MatchingRows = {} => (ret.ok /\ ret.result = <<>>)
           /\ (ret.first_time # None /\ ret.last_time = ret.first_time)
                 => /\ ret.ok
                    /\ \A i \in 1..Len(ret.result) :
                          /\ ret.result[i].azimuthTimeMin = ret.first_time[1]
                          /\ ret.result[i].azimuthTimeMax = ret.first_time[1]

\* ------------------------------- specification: small products (SpecFacade)

FacadeBursts == 2   \* the bursts of a product of this specification

\* The products: burst i, of index i, is in one of two swaths and of one of
\* two products; three lines each, one burst every four instants
FacadeLayouts == [1..FacadeBursts -> [sIndex : 1..2, pIndex : 1..2]]

FacadeLayout(choice) ==
    [i \in 1..Len(choice) |->
        [ pIndex |-> choice[i].pIndex, sIndex |-> choice[i].sIndex, bIndex |-> i,
          productID |-> ProductID(choice[i].pIndex), t0 |-> 4 * (i - 1),
          nlines |-> 3, dt |-> 2, rg0 |-> 0, tmax |-> 4 * (i - 1) + 4,
          data |-> FALSE ]]

Reverse(s) == [i \in 1..Len(s) |-> s[Len(s) + 1 - i]]

\* The XML lists the bursts in the order of the file or in the opposite one
InitFacade ==
    \E choice \in FacadeLayouts :
        \E order \in {FacadeLayout(choice), Reverse(FacadeLayout(choice))} :
            Constructed(FacadeLayout(choice), order)

NextFacade ==
    \/ \E index \in Range(swath_list) \cup {"EW9"} : GetSwath(index)
    \/ \E self \in SwathObjects : \E b \in 1..FacadeBursts \cup {9999} :
          GetBurst(self, b)
    \/ \E self \in SwathObjects : IterBursts(self)
    \/ iter_swaths(None)

SpecFacade == InitFacade /\ [][NextFacade]_vars

\* The (pIndex, sIndex, bIndex) triple of a catalogue row, and the triples the
\* annotation lists
Triple(row) == <<row.pIndex, row.sIndex, row.bIndex>>
AnnotatedTriples ==
    {<<IntOf(annot.etadBurst[i].attrib.pIndex), IntOf(annot.etadBurst[i].attrib.sIndex),
       IntOf(annot.etadBurst[i].attrib.bIndex)>> : i \in 1..Len(annot.etadBurst)}

\* facade[row.swathID][row.bIndex], on the caches as they are
ResolvesToItsBurst(row) ==
    LET s == Sentinel1Etad__getitem__(swath_cache, constructed.swath, row.swathID)
    IN  /\ s.ok
        /\ LET b == Sentinel1EtadSwath__getitem__(burst_cache, constructed.burst,
                                                  s.result, row.bIndex)
           IN  /\ b.ok
               /\ swath_id(b.result) = row.swathID
               /\ burst_index(b.result) = row.bIndex

\* C9: in every state after construction the catalogue holds one row for every
\* burst of the product (every triple the annotation lists, every burst group of
\* the file), no two rows share a (pIndex, sIndex, bIndex) triple, and for every
\* row facade[row.swathID][row.bIndex] is a burst whose swath identifier and
\* burst index are those of the row.
C9_OneRowPerBurstAndRowsResolve ==
    /\ burst_catalogue # None
    /\ Len(CatalogueRows) = Cardinality(AllPaths(ds))
    /\ {Triple(CatalogueRows[i]) : i \in 1..Len(CatalogueRows)} = AnnotatedTriples
    /\ \A i, j \in 1..Len(CatalogueRows) :
          i # j => Triple(CatalogueRows[i]) # Triple(CatalogueRows[j])
    /\ \A path \in AllPaths(ds) :
          \E i \in 1..Len(CatalogueRows) :
              /\ CatalogueRows[i].swathID = BurstGrp(path).swathID
              /\ CatalogueRows[i].bIndex = BurstGrp(path).bIndex
    /\ \A i \in 1..Len(CatalogueRows) : ResolvesToItsBurst(CatalogueRows[i])
    /\ (ret.op = "Sentinel1EtadSwath.__getitem__" /\ ret.ok)
          => /\ swath_id(ret.result) = ret.self.grp
             /\ burst_index(ret.result) = ret.burst_index

\* a burst of the second swath was resolved, in a product of two swaths whose
\* XML lists the bursts in the opposite order of the file
C9_Witness ==
    /\ ret.op = "Sentinel1EtadSwath.__getitem__" /\ ret.ok
    /\ Len(swath_list) = 2
    /\ ret.self.grp = "IW2"
    /\ CatalogueRows[1].bIndex = FacadeBursts
    /\ \E i \in 1..Len(CatalogueRows) :
          /\ CatalogueRows[i].swathID = "IW2"
          /\ CatalogueRows[i].bIndex = ret.burst_index
          /\ burst_index(ret.result) = CatalogueRows[i].bIndex

\* ------------------------------------ specification: swath merge (SpecMerge)

MergeBursts == 2     \* the bursts of the swath of this specification
LinesPerBurst == 3   \* the lines of each of them

\* The swath IW1 of one product, of azimuth sampling 2 and range start 0.
\* Burst 1 starts at instant 0 and every burst but the last starts at the
\* last line of the burst before it.  The last burst starts gap instants
\* after the start of the burst before it: 2 (one line later), 3 (half a
\* sampling interval off the grid) or 2 * LinesPerBurst (no overlap); its
\* sampling and its range start are those of the others or differ from them.
MergeChoices == [gap : {2, 3, 2 * LinesPerBurst}, dt : {2, 4}, rg0 : {0, 1}]

MergeLayout(choice) ==
    [i \in 1..MergeBursts |->
        LET last == i = MergeBursts /\ i > 1
            dt == IF last THEN choice.dt ELSE 2
            t0 == IF last THEN 2 * (LinesPerBurst - 1) * (i - 2) + choice.gap
                  ELSE 2 * (LinesPerBurst - 1) * (i - 1)
        IN  [ pIndex |-> 1, sIndex |-> 1, bIndex |-> i, productID |-> ProductID(1),
              t0 |-> t0, nlines |-> LinesPerBurst, dt |-> dt,
              rg0 |-> IF last THEN choice.rg0 ELSE 0,
              tmax |-> t0 + (LinesPerBurst - 1) * dt, data |-> TRUE ]]

InitMerge ==
    \E choice \in MergeChoices : Constructed(MergeLayout(choice), MergeLayout(choice))

\* The burst selections of the merges: all bursts (None), or a list of no
\* burst, of one burst, or of two bursts next to each other in either order
MergeLists ==
    {None, Some(<<>>)} \cup {Some(<<b>>) : b \in 1..MergeBursts}
        \cup {Some(<<b, b + 1>>) : b \in 1..(MergeBursts - 1)}
        \cup {Some(<<b + 1, b>>) : b \in 1..(MergeBursts - 1)}

\* The windows the caller sets: <<azimuthTimeMin, azimuthTimeMax>>
MergeWindows ==
    {<<Some(0), Some(8)>>, <<Some(2), Some(8)>>, <<None, Some(4)>>}

\* The calls: for the range variable and the default flags, every selection
\* without a window and, with every window, all bursts and the first two in
\* either order; burst 1 alone, for the range variable, transposed with every
\* combination of the other flags and not transposed with the default ones,
\* and in metres for the azimuth variable; all bursts in metres and masked
\* mode
MergeCalls ==
    {[burst_var |-> "sumOfCorrectionsRg", burst_index_list |-> l,
      azimuthTimeMin |-> w[1], azimuthTimeMax |-> w[2],
      set_auto_mask |-> FALSE, transpose |-> TRUE, meter |-> FALSE] :
        l \in {None, Some(<<1, 2>>), Some(<<2, 1>>)}, w \in MergeWindows}
    \cup
    {[burst_var |-> "sumOfCorrectionsRg", burst_index_list |-> l,
      azimuthTimeMin |-> None, azimuthTimeMax |-> None,
      set_auto_mask |-> FALSE, transpose |-> TRUE, meter |-> FALSE] :
        l \in MergeLists}
    \cup
    {[burst_var |-> "sumOfCorrectionsRg", burst_index_list |-> Some(<<1>>),
      azimuthTimeMin |-> None, azimuthTimeMax |-> None,
      set_auto_mask |-> f[1], transpose |-> f[2], meter |-> f[3]] :
        f \in {g \in BOOLEAN \X BOOLEAN \X BOOLEAN : g[2] \/ (~g[1] /\ ~g[3])}}
    \cup
    {[burst_var |-> "sumOfCorrectionsAz", burst_index_list |-> Some(<<1>>),
      azimuthTimeMin |-> None, azimuthTimeMax |-> None,
      set_auto_mask |-> m, transpose |-> TRUE, meter |-> TRUE] : m \in BOOLEAN}
    \cup
    {[burst_var |-> "sumOfCorrectionsAz", burst_index_list |-> None,
      azimuthTimeMin |-> None, azimuthTimeMax |-> None,
      set_auto_mask |-> TRUE, transpose |-> TRUE, meter |-> TRUE]}

NextMerge ==
    \/ \E index \in Range(swath_list) : GetSwath(index)
    \/ \E self \in SwathObjects : \E call \in MergeCalls : BurstMerger(self, call)
    \/ \E burst \in BurstObjects : \E m \in BOOLEAN :
          GetCorrection(burst, "sum", m, TRUE, TRUE)
    \/ \E self \in SwathObjects : \E l \in {None, Some(<<>>), Some(<<1>>)} :
          MergeSumCorrection(self, l, TRUE, TRUE, FALSE)
    \/ \E names \in {None, Some(<<>>)} :
          SwathMerger("sumOfCorrectionsRg", names, None)

SpecMerge == InitMerge /\ [][NextMerge]_vars

IsMerge == ret.op = "Sentinel1EtadSwath._burst_merger"

\* The bursts the last merge selects, and those of them the swath holds
Selected ==
    IF ret.call.burst_index_list = None THEN burst_list(ret.self)
    ELSE ret.call.burst_index_list[1]
SelectedPath(b) == <<ret.self.grp, StoredBurstName(b)>>
SelectionIsValid ==
    /\ Selected # <<>>
    /\ \A k \in 1..Len(Selected) : Selected[k] \in Range(burst_list(ret.self))

\* The group of selected burst b as it was when construction finished
SelectedGrp0(b) == BurstGrpOf(ds0, SelectedPath(b))

\* The value expected at sample j of line i of burst b in the raster of the
\* last merge: the stored value, times the factor of the unit asked for
ExpectedValue(b, i, j) ==
    LET stored == SelectedGrp0(b).variables[ret.call.burst_var][j][i]
    IN  IF ~ret.call.meter THEN stored
        ELSE IF endswith_Az(ret.call.burst_var)
        THEN Times(stored, AzimuthFactor(grid_spacing_y, SelectedGrp0(b).gridSamplingAzimuth))
        ELSE Times(stored, HalfSpeedOfLight)

\* The row of the raster of the last merge at which line i of burst b falls
RowOfLine(b, i) ==
    RoundDiv(SelectedGrp0(b).variables["azimuth"][i] - ret.result.first_azimuth_time,
             ret.result.sampling.y)

\* C2: after a merge that returns a raster, every row on which lines of more
\* than one selected burst fall holds a line of the covering burst with the
\* highest burst index.
C2_OverlapHoldsHighestBurst ==
    (/\ IsMerge /\ ret.ok
     /\ \A k \in 1..Len(Selected) : \A i \in 1..LinesPerBurst :
           RowOfLine(Selected[k], i) >= 0)
        => \A r \in 1..Len(ret.result.data) :
              LET covering == {b \in Range(Selected) :
                                 \E i \in 1..LinesPerBurst : RowOfLine(b, i) = r - 1}
                  top == CHOOSE b \in covering : \A c \in covering : c <= b
              IN  Cardinality(covering) > 1
                    => \E i \in 1..LinesPerBurst :
                          /\ RowOfLine(top, i) = r - 1
                          /\ \A j \in 1..NumSamples :
                                ret.result.data[r][j] = ExpectedValue(top, i, j)

\* C3: a merge over a selection in which a burst differs from the first
\* selected burst in its azimuth sampling or in its gridStartRangeTime0 fails:
\* the caller gets an error and no raster.
C3_MismatchFailsMerge ==
    (/\ IsMerge
     /\ SelectionIsValid
     /\ \E k \in 1..Len(Selected) :
           \/ SelectedGrp0(Selected[k]).gridSamplingAzimuth
                 # SelectedGrp0(Selected[1]).gridSamplingAzimuth
           \/ SelectedGrp0(Selected[k]).gridStartRangeTime0
                 # SelectedGrp0(Selected[1]).gridStartRangeTime0)
        => ~ret.ok

\* all bursts selected, the second of another azimuth sampling and of the
\* same range start: the assertion of the loop ended the merge
C3_Witness ==
    /\ IsMerge
    /\ ret.call.burst_index_list = None
    /\ SelectedGrp0(2).gridSamplingAzimuth # SelectedGrp0(1).gridSamplingAzimuth
    /\ SelectedGrp0(2).gridStartRangeTime0 = SelectedGrp0(1).gridStartRangeTime0
    /\ ~ret.ok
    /\ ret.result = "AssertionError"

\* C4: no retrieval and no merge changes the stored burst data, and a merge,
\* whatever was retrieved or merged before it, has the outcome that the same
\* call has on the product as construction leaves it (store, caches and
\* masking modes): any two merges with the same arguments yield the same raster.
C4_MergeIsRepeatable ==
    /\ ds = ds0
    /\ IsMerge =>
          LET fresh == _burst_merger(ds0, <<>>, <<>>, RootSetAutoMask(ds0, FALSE),
                                     ret.self, ret.call)
          IN  /\ fresh.ok = ret.ok
              /\ ret.ok => ret.result = fresh.result

\* a merge in metres of burst 1 alone returned a raster while burst 2 is in
\* masked mode and burst 1 is not: burst 2 was read before, by a merge of all
\* bursts or by a retrieval, and at least one read of burst 1 came after
C4_Witness ==
    /\ IsMerge /\ ret.ok
    /\ ret.call.meter
    /\ ret.call.burst_index_list = Some(<<1>>)
    /\ auto_mask[SelectedPath(2)]
    /\ ~auto_mask[SelectedPath(1)]
    /\ Len(burst_cache) = MergeBursts

\* C5: a merge of exactly one burst, with the window left to the merge and the
\* grid transposed, returns a raster of as many rows as the burst has lines,
\* row i holding line i of the burst, and starting at the burst's first line.
C5_SingleBurstIsCopy ==
    (/\ IsMerge
     /\ SelectionIsValid
     /\ Len(Selected) = 1
     /\ ret.call.azimuthTimeMin = None /\ ret.call.azimuthTimeMax = None
     /\ ret.call.transpose)
        => /\ ret.ok
           /\ Len(ret.result.data) = LinesPerBurst
           /\ ret.result.first_azimuth_time
                 = SelectedGrp0(Selected[1]).variables["azimuth"][1]
           /\ \A i \in 1..LinesPerBurst : \A j \in 1..NumSamples :
                 ret.result.data[i][j] = ExpectedValue(Selected[1], i, j)

\* burst 2 alone was merged
C5_Witness ==
    /\ IsMerge /\ ret.ok
    /\ ret.call.burst_index_list = Some(<<2>>)
    /\ ret.call.azimuthTimeMin = None /\ ret.call.azimuthTimeMax = None
    /\ Len(ret.result.data) = LinesPerBurst
    /\ ret.result.data[1][1] = SelectedGrp0(2).variables[ret.call.burst_var][1][1]

\* ----------------------------- specification: burst retrievals (SpecBurst)

\* The products: the swath of the merge specification with all bursts on one
\* range start, the last one line after the burst before it
InitBurst ==
    \E choice \in {c \in MergeChoices : c.gap = 2 /\ c.rg0 = 0} :
        Constructed(MergeLayout(choice), MergeLayout(choice))

\* The names a caller asks get_correction for: those of the documentation, the
\* names the records are tagged with, and others
CorrectionNames ==
    {"tropospheric", "ionospheric", "geodetic", "bistatic", "doppler", "fmrate",
     "sum", "Doppler", "FM rate", "Sum", "troposphere", ""}

NextBurst ==
    \/ \E index \in Range(swath_list) : GetSwath(index)
    \/ \E self \in SwathObjects : \E b \in 1..MergeBursts \cup {9999} :
          GetBurst(self, b)
    \/ \E burst \in BurstObjects : \E name \in CorrectionNames :
          \E meter \in BOOLEAN : GetCorrection(burst, name, FALSE, TRUE, meter)
    \/ \E burst \in BurstObjects :
          \E m \in BOOLEAN, t \in BOOLEAN, k \in BOOLEAN :
              GetCorrection(burst, "sum", m, t, k)
    \/ \E burst \in BurstObjects : GetFootprint(burst)

SpecBurst == InitBurst /\ [][NextBurst]_vars

IsGetCorrection == ret.op = "Sentinel1EtadBurst.get_correction"

\* C10: get_correction(name) returns a record when name is one of
\* tropospheric, ionospheric, geodetic, bistatic, doppler, fmrate and sum, and
\* for every other name it raises the error of an unknown correction
\* (ValueError) and returns nothing.
C10_SevenNamesAndNoOther ==
    IsGetCorrection
        => IF ret.name \in {"tropospheric", "ionospheric", "geodetic", "bistatic",
                            "doppler", "fmrate", "sum"}
           THEN ret.ok /\ ret.result.dims # <<>>
           ELSE ~ret.ok /\ ret.result = "ValueError"

\* the name a record of the Doppler correction is tagged with was asked for,
\* on a burst that had answered a request before (it is in masked mode)
C10_Witness ==
    /\ IsGetCorrection
    /\ ret.name = "Doppler"
    /\ ~ret.ok
    /\ ret.result = "ValueError"
    /\ auto_mask[ret.self.grp]

\* The number stored at line i, sample j of variable var of the burst of the
\* last get_correction, as it was when construction finished
StoredNumber(var, i, j) == BurstGrpOf(ds0, ret.self.grp).variables[var][j][i][1]

\* C11: in the record get_correction returns, with meter=True every value of
\* axis x is the stored value times c/2 and every value of axis y is the stored
\* value times azimuth spacing in metres / azimuth sampling in seconds; with
\* meter=False the values are the stored ones; unit is 'm' exactly when
\* meter=True and 's' otherwise.
C11_MetresByAxis ==
    (IsGetCorrection /\ ret.ok)
        => /\ ret.result.unit = (IF ret.meter THEN "m" ELSE "s")
           /\ \A k \in 1..Len(ret.result.dims) :
                LET axis == ret.result.dims[k]
                    var == CorrectionMethods[ret.name].prm_list[k][2]
                    grp == BurstGrpOf(ds0, ret.self.grp)
                    ratio == ret.self.daz_m \div grp.gridSamplingAzimuth
                    value(i, j) == IF ret.transpose THEN ret.result.fields[k][i][j]
                                   ELSE ret.result.fields[k][j][i]
                IN  \A i \in 1..Len(grp.variables["azimuth"]) :
                        \A j \in 1..grp.rangeExtent :
                            value(i, j) =
                                IF ~ret.meter THEN <<StoredNumber(var, i, j), 0>>
                                ELSE IF axis = "x" THEN <<StoredNumber(var, i, j), 1>>
                                ELSE <<StoredNumber(var, i, j) * ratio, 0>>

\* the geodetic correction was asked for in metres: its two axes are scaled,
\* each by its own factor
C11_Witness ==
    /\ IsGetCorrection /\ ret.ok
    /\ ret.name = "geodetic" /\ ret.meter
    /\ ret.result.dims = <<"x", "y">>
    /\ ret.result.fields[1][1][1] = <<StoredNumber("geodeticCorrectionRg", 1, 1), 1>>
    /\ ret.result.fields[2][1][1][1] > StoredNumber("geodeticCorrectionAz", 1, 1)
    /\ ret.result.fields[2][1][1][2] = 0

IsMergeSum == ret.op = "Sentinel1EtadSwath.merge_sum_correction"

\* The selected bursts are bursts of the swath, at least one, and have the
\* azimuth sampling and the range start of the first
SelectionIsConsistent ==
    /\ SelectionIsValid
    /\ \A k \in 1..Len(Selected) :
          /\ SelectedGrp0(Selected[k]).gridSamplingAzimuth
                = SelectedGrp0(Selected[1]).gridSamplingAzimuth
          /\ SelectedGrp0(Selected[k]).gridStartRangeTime0
                = SelectedGrp0(Selected[1]).gridStartRangeTime0

\* The outcome of _burst_merger for variable burst_var over the selection of
\* the last merge_sum_correction, on the product as constructed
MergedAlone(burst_var, meter) ==
    _burst_merger(ds0, <<>>, <<>>, RootSetAutoMask(ds0, FALSE), ret.self,
                  MergeCall(burst_var, ret.call.burst_index_list,
                            ret.call.set_auto_mask, ret.call.transpose, meter)).result

\* C12: merge_sum_correction over a valid and consistent selection completes
\* and returns one record: x and y are the merged rasters of the two sum
\* variables, unit is the unit tag, lats and lons are the rasters of lats and
\* lons merged over the same selection, and first_azimuth_time,
\* first_slant_range_time and sampling are those of the merge.
C12_SumMergeReturnsRecord ==
    (IsMergeSum /\ SelectionIsConsistent)
        => /\ ret.ok
           /\ ret.result.x = MergedAlone("sumOfCorrectionsRg", ret.call.meter).data
           /\ ret.result.y = MergedAlone("sumOfCorrectionsAz", ret.call.meter).data
           /\ ret.result.unit = (IF ret.call.meter THEN "m" ELSE "s")
           /\ ret.result.lats = MergedAlone("lats", FALSE).data
           /\ ret.result.lons = MergedAlone("lons", FALSE).data
           /\ ret.result.first_azimuth_time
                 = MergedAlone("sumOfCorrectionsRg", ret.call.meter).first_azimuth_time
           /\ ret.result.first_slant_range_time
                 = SelectedGrp0(Selected[1]).gridStartRangeTime0
           /\ ret.result.sampling
                 = MergedAlone("sumOfCorrectionsRg", ret.call.meter).sampling

IsSwathMerge == ret.op = "Sentinel1Etad._swath_merger"

\* The swaths of the last product merge, and the raster of the range sum of
\* swath name merged on the product as constructed
MergedSwaths == IF ret.swath_list = None THEN swath_list ELSE ret.swath_list[1]
SwathRaster(name) ==
    _burst_merger(ds0, <<>>, <<>>, RootSetAutoMask(ds0, FALSE),
                  [id |-> <<name, 1>>, cls |-> "Sentinel1EtadSwath", grp |-> name,
                   daz_m |-> grid_spacing_y],
                  MergeCall("sumOfCorrectionsRg", ret.burst_index_list,
                            TRUE, TRUE, FALSE)).result

\* The bursts of every swath have one azimuth sampling and one range start
ProductIsValid ==
    \A i \in 1..Len(ds0.groups) :
        \A j \in 1..Len(ds0.groups[i].groups) :
            /\ ds0.groups[i].groups[j].gridSamplingAzimuth
                  = ds0.groups[i].groups[1].gridSamplingAzimuth
            /\ ds0.groups[i].groups[j].gridStartRangeTime0
                  = ds0.groups[i].groups[1].gridStartRangeTime0

\* C13: the product merge of a valid product returns a raster of the size of
\* the azimuth and range extents of the product; the merged raster of each
\* swath lies in it from line round(first_azimuth_time / sampling.y) and sample
\* round(first_slant_range_time / sampling.x) on, and a cell that several
\* swaths cover holds the value of the one processed last.
C13_SwathsLaidAtOffsets ==
    (IsSwathMerge /\ ProductIsValid)
        => /\ ret.ok
           /\ Len(ret.result)
                 = RoundDiv(ds0.azimuthTimeMax - ds0.azimuthTimeMin, grid_sampling.y) + 1
           /\ \A r \in 1..Len(ret.result) :
                /\ Len(ret.result[r])
                      = RoundDiv(ds0.rangeTimeMax - ds0.rangeTimeMin, grid_sampling.x) + 1
                /\ \A c \in 1..Len(ret.result[r]) :
                      LET line(k) ==
                              r - RoundDiv(SwathRaster(MergedSwaths[k]).first_azimuth_time,
                                           grid_sampling.y)
                          sample(k) ==
                              c - RoundDiv(SwathRaster(MergedSwaths[k]).first_slant_range_time,
                                           grid_sampling.x)
                          covering ==
                              {k \in 1..Len(MergedSwaths) :
                                  /\ line(k) \in 1..Len(SwathRaster(MergedSwaths[k]).data)
                                  /\ sample(k) \in 1..NumSamples}
                          last == SetMax(covering)
                      IN  covering # {}
                            => ret.result[r][c]
                                 = SwathRaster(MergedSwaths[last]).data[line(last)][sample(last)]

IsFootprint == ret.op = "Sentinel1EtadBurst.get_footprint"

\* The vertex of the burst of the last footprint at line i, sample j of its
\* grid, from the product as constructed: (lon, lat, height)
GridVertex(i, j) ==
    LET v == BurstGrpOf(ds0, ret.self.grp).variables
    IN  <<v["lons"][j][i], v["lats"][j][i], v["height"][j][i]>>

\* C14: the footprint of a burst is the closed polygon of the four vertices
\* (lon, lat, height) that the grid holds at (first row, first column),
\* (first row, last column), (last row, last column) and (last row, first
\* column), in this order; the rows of the grid are its lines.
C14_FootprintCorners ==
    IsFootprint
        => LET rows == Len(BurstGrpOf(ds0, ret.self.grp).variables["azimuth"])
               cols == BurstGrpOf(ds0, ret.self.grp).rangeExtent
           IN  /\ ret.ok
               /\ ret.result = <<GridVertex(1, 1), GridVertex(1, cols),
                                 GridVertex(rows, cols), GridVertex(rows, 1),
                                 GridVertex(1, 1)>>

\* the footprint of the second burst was taken: four different vertices
C14_Witness ==
    /\ IsFootprint /\ ret.ok
    /\ ret.self.grp[2] = StoredBurstName(2)
    /\ Len(ret.result) = 5
    /\ Cardinality(Range(ret.result)) = 4
    /\ auto_mask[ret.self.grp]

\* C15: a merge over an empty burst selection (an empty list, or the default
\* selection of a swath without bursts) fails with an error and returns no
\* raster.
C15_EmptySelectionFails ==
    ((IsMerge \/ IsMergeSum) /\ Selected = <<>>)
        => /\ ~ret.ok
           /\ ret.result = "IndexError"

\* the merge of an empty list was asked of a swath with bursts, after the
\* swath had given a burst
C15_Witness ==
    /\ IsMerge
    /\ ret.call.burst_index_list = Some(<<>>)
    /\ burst_list(ret.self) # <<>>
    /\ burst_cache # <<>>
    /\ ~ret.ok
    /\ ret.result = "IndexError"

\* ------------------------- specification: all operations (SpecProduct)

\* The products: one without bursts, one with all bursts in the first swath
\* and one with the bursts dealt to the swaths in turn; the bursts follow each
\* other in time, with the sampling and the range start of the first.  The
\* XML lists them in the order of the file or in the opposite one.
ProductLayouts ==
    {<<>>} \cup
    {[i \in 1..MergeBursts |->
        [ pIndex |-> 1, sIndex |-> IF spread THEN ((i - 1) % NumSwaths) + 1 ELSE 1,
          bIndex |-> i, productID |-> ProductID(1),
          t0 |-> 2 * (LinesPerBurst - 1) * (i - 1), nlines |-> LinesPerBurst,
          dt |-> 2, rg0 |-> 0,
          tmax |-> 2 * (LinesPerBurst - 1) * i, data |-> TRUE ]] :
     spread \in BOOLEAN}

InitProduct ==
    \E layout \in ProductLayouts : \E order \in {layout, Reverse(layout)} :
        Constructed(layout, order)

\* The subsets a caller passes on: none, or the rows the last query returned
Subsets ==
    {None} \cup (IF ret.op = "Sentinel1Etad.query_burst" /\ ret.ok
                 THEN {Some(ret.result)} ELSE {})

NextProduct ==
    \/ \E index \in Range(swath_list) \cup {"EW9"} : GetSwath(index)
    \/ \E self \in SwathObjects : \E b \in ProbeBursts(self) : GetBurst(self, b)
    \/ \E self \in SwathObjects : IterBursts(self)
    \/ \E selection \in Subsets : iter_swaths(selection)
    \/ \E swath \in {None, Some([str |-> "IW2"])} : QueryBurst(None, None, None, swath)
    \/ \E burst \in BurstObjects : GetFootprint(burst)
    \/ \E burst \in BurstObjects : GetCorrection(burst, "sum", FALSE, TRUE, TRUE)
    \/ \E self \in SwathObjects :
          BurstMerger(self, MergeCall("sumOfCorrectionsRg", None, FALSE, TRUE, FALSE))
    \/ \E self \in SwathObjects : MergeSumCorrection(self, None, TRUE, TRUE, FALSE)
    \/ SwathMerger("sumOfCorrectionsRg", None, None)

SpecProduct == InitProduct /\ [][NextProduct]_vars

\* C16: no operation changes the burst catalogue: after every step of every
\* operation (query_burst, iter_swaths, indexing, footprint, correction and
\* merges) its rows, their values and their order are those before the step,
\* and so those construction left.
C16_CatalogueUnchanged == [][burst_catalogue' = burst_catalogue]_vars

\* a query returned the rows of the catalogue in another order than the
\* catalogue holds them
C16_Witness ==
    /\ IsQuery /\ ret.ok
    /\ burst_catalogue # None
    /\ Len(ret.result) = MergeBursts
    /\ ret.result # burst_catalogue[1]
    /\ burst_catalogue = _init_burst_catalogue(annot)

\* The step is an indexing of the product with a name that is no swath of it,
\* or of a swath with an index that is no burst of it
InvalidKeyStep ==
    \/ /\ ret'.op = "Sentinel1Etad.__getitem__"
       /\ ret'.index \notin Range(swath_list)
    \/ /\ ret'.op = "Sentinel1EtadSwath.__getitem__"
       /\ ret'.burst_index \notin Range(burst_list(ret'.self))

\* C17: indexing with an invalid key fails for that call only: the call
\* raises, no object is constructed and none is memoized, and every valid key
\* gives after it the object that it would have given without it.
C17_InvalidKeyFailsAlone ==
    [][InvalidKeyStep
         => /\ ~ret'.ok
            /\ constructed' = constructed
            /\ swath_cache' = swath_cache
            /\ burst_cache' = burst_cache
            /\ \A index \in Range(swath_list) :
                  Sentinel1Etad__getitem__(swath_cache', constructed'.swath, index).result
                    = Sentinel1Etad__getitem__(swath_cache, constructed.swath, index).result
            /\ \A self \in SwathObjects : \A b \in Range(burst_list(self)) :
                  Sentinel1EtadSwath__getitem__(burst_cache', constructed'.burst,
                                                self, b).result
                    = Sentinel1EtadSwath__getitem__(burst_cache, constructed.burst,
                                                    self, b).result]_vars

\* a swath that had given a burst was asked for a burst it does not hold
C17_Witness ==
    /\ ret.op = "Sentinel1EtadSwath.__getitem__"
    /\ ret.burst_index \notin Range(burst_list(ret.self))
    /\ ~ret.ok
    /\ burst_cache # <<>>
    /\ swath_cache # <<>>

IsIterSwaths == ret.op = "Sentinel1Etad.iter_swaths"

\* The rows the last iter_swaths went over: those of the subset, or those of
\* the whole catalogue, and the places where a swathID appears first
IteratedRows == IF ret.selection = None THEN CatalogueRows ELSE ret.selection[1]
FirstAppearances ==
    {i \in 1..Len(IteratedRows) :
        \A j \in 1..(i - 1) : IteratedRows[j].swathID # IteratedRows[i].swathID}

\* C18: iter_swaths yields one swath object for every swathID of the rows of
\* the subset (of the whole catalogue when no subset is given), each once, in
\* the order in which the swathIDs appear first in the rows.
C18_SwathsInFirstAppearanceOrder ==
    IsIterSwaths
        => /\ ret.ok
           /\ Len(ret.result) = Cardinality(FirstAppearances)
           /\ \A i \in FirstAppearances :
                LET k == Cardinality({j \in FirstAppearances : j <= i})
                IN  /\ ret.result[k].cls = "Sentinel1EtadSwath"
                    /\ ret.result[k].grp = IteratedRows[i].swathID
                    /\ ret.result[k] \in SwathObjects

\* The name tag of the record that the burst of the last get_correction
\* returns for kind
TagOf(kind) ==
    get_correction(ds, auto_mask, ret.self, kind, FALSE, TRUE, FALSE).result.name

\* C19: the record get_correction returns for a kind holds the axes of the
\* kind and no other (tropospheric, ionospheric, doppler: x; bistatic,
\* fmrate: y; geodetic, sum: x and y), and its name tag is the tag of this
\* kind alone: no other kind gives a record of the same tag, so the tag tells
\* which kind was requested.
C19_AxesAndTagOfKind ==
    (IsGetCorrection /\ ret.ok)
        => /\ ret.result.dims =
                 (IF ret.name \in {"tropospheric", "ionospheric", "doppler"}
                  THEN <<"x">>
                  ELSE IF ret.name \in {"bistatic", "fmrate"} THEN <<"y">>
                  ELSE <<"x", "y">>)
           /\ Len(ret.result.fields) = Len(ret.result.dims)
           /\ \A kind \in {"tropospheric", "ionospheric", "geodetic", "bistatic",
                            "doppler", "fmrate", "sum"} :
                 TagOf(kind) = ret.result.name => kind = ret.name

\* the FM rate correction was requested as fmrate: one axis, y, and a tag
\* spelled otherwise than the request
C19_Witness ==
    /\ IsGetCorrection /\ ret.ok
    /\ ret.name = "fmrate"
    /\ ret.result.dims = <<"y">>
    /\ ret.result.name = "FM rate"

\* The selection of the last merge in ascending order of burst index (its
\* indices differ from each other)
Ascending(list) ==
    [k \in 1..Len(list) |->
        CHOOSE x \in Range(list) : Cardinality({y \in Range(list) : y < x}) = k - 1]

\* C20: a merge writes the selected bursts in ascending order of burst index
\* whatever the order of the list: the list is sorted first or the call is
\* rejected with an error, so a merge that returns returns the raster and the
\* first azimuth time that the merge of the sorted list returns.
C20_MergeInAscendingOrder ==
    (IsMerge /\ SelectionIsValid /\ ret.call.burst_index_list # None)
        => \/ ~ret.ok
           \/ LET sorted ==
                      _burst_merger(ds0, <<>>, <<>>, RootSetAutoMask(ds0, FALSE),
                                    ret.self,
                                    [ret.call EXCEPT
                                        !.burst_index_list = Some(Ascending(Selected))])
              IN  /\ sorted.ok
                  /\ ret.result.data = sorted.result.data
                  /\ ret.result.first_azimuth_time = sorted.result.first_azimuth_time

\* The azimuth axis of selected burst b as stored, and the window of the last
\* merge: the instant the caller gave, or the first sample of the first
\* selected burst (t0) and the last sample of the last selected burst (t1)
AzimuthOf(b) == SelectedGrp0(b).variables["azimuth"]
WindowT0 ==
    IF ret.call.azimuthTimeMin # None THEN ret.call.azimuthTimeMin[1]
    ELSE AzimuthOf(Selected[1])[1]
WindowT1 ==
    IF ret.call.azimuthTimeMax # None THEN ret.call.azimuthTimeMax[1]
    ELSE AzimuthOf(Selected[Len(Selected)])[Len(AzimuthOf(Selected[Len(Selected)]))]
WindowDt == SelectedGrp0(Selected[1]).gridSamplingAzimuth

\* The lines <<k, i>> (line i of the k-th selected burst) whose row index
\* round((t - t0) / dt) addresses row r of a raster of n rows, rows counted
\* from 0 and a negative index from the end
LinesAtRow(r, n) ==
    {ki \in (1..Len(Selected)) \X (1..LinesPerBurst) :
        WrappedIndex(RoundDiv(AzimuthOf(Selected[ki[1]])[ki[2]] - WindowT0, WindowDt), n) = r}

\* The line written last of a set of lines: of the burst latest in the
\* list, and of its lines the latest
LastWritten(lines) ==
    CHOOSE ki \in lines :
        \A kj \in lines : kj[1] < ki[1] \/ (kj[1] = ki[1] /\ kj[2] <= ki[2])

\* C21: a merge that returns a raster has the window t0 = azimuth time of the
\* first sample of the first selected burst and t1 = azimuth time of the last
\* sample of the last selected burst unless the caller gave them; the raster
\* has round((t1 - t0) / dt) + 1 rows and as many columns as the range
\* dimension of the swath; a row no burst sample was written at is zero, and
\* the sample of azimuth time t is at row round((t - t0) / dt): the row holds
\* the line written there last.
C21_WindowRowsAndZeros ==
    (IsMerge /\ ret.ok)
        => /\ ret.result.first_azimuth_time = WindowT0
           /\ Len(ret.result.data) = RoundDiv(WindowT1 - WindowT0, WindowDt) + 1
           /\ \A r \in 1..Len(ret.result.data) :
                 /\ Len(ret.result.data[r]) = SelectedGrp0(Selected[1]).rangeExtent
                 /\ \A j \in 1..Len(ret.result.data[r]) :
                       LET lines == LinesAtRow(r - 1, Len(ret.result.data))
                       IN  ret.result.data[r][j] =
                             IF lines = {} THEN <<0, 0>>
                             ELSE ExpectedValue(Selected[LastWritten(lines)[1]],
                                                LastWritten(lines)[2], j)

\* all bursts were merged into a window the caller gave, the last burst half
\* a sampling interval off the grid of the first: the lines of instants 3 and
\* 5 of the last burst both have row index 2, where the later stays, and row
\* 3, at which no line was written, is zero
C21_Witness ==
    /\ IsMerge /\ ret.ok
    /\ ret.call.burst_index_list = None
    /\ ret.call.azimuthTimeMin = Some(0) /\ ret.call.azimuthTimeMax = Some(8)
    /\ AzimuthOf(MergeBursts)[1] = 3
    /\ Len(ret.result.data) = 5
    /\ ret.result.data[4] = [j \in 1..NumSamples |-> <<0, 0>>]
    /\ ret.result.data[3][1] = ExpectedValue(MergeBursts, 2, 1)

\* C22: get_footprint reads the lats, lons and height grids with the masked
\* mode of the store disabled (its reads set the mode of the burst group to
\* False, the mode the group is in after the call), and the vertices of the
\* polygon hold the values stored at the corners, a fill value as it is stored.
C22_FootprintReadsUnmasked ==
    (IsFootprint /\ ret.ok)
        => /\ ~auto_mask[ret.self.grp]
           /\ \A k \in 1..Len(ret.result) :
                 \E i \in 1..LinesPerBurst, j \in 1..NumSamples :
                     ret.result[k] = GridVertex(i, j)

\* The reads of burst variables that a step makes: those of the call that the
\* step is (a correction, a footprint or a merge, which reads the burst grids
\* too), made on the state before the step
ReadsOfStep ==
    IF ret'.op = "Sentinel1EtadBurst.get_correction"
    THEN get_correction(ds, auto_mask, ret'.self, ret'.name, ret'.set_auto_mask,
                        ret'.transpose, ret'.meter).reads
    ELSE IF ret'.op = "Sentinel1EtadBurst.get_footprint"
    THEN get_footprint(ds, auto_mask, ret'.self).reads
    ELSE IF ret'.op = "Sentinel1EtadSwath._burst_merger"
    THEN _burst_merger(ds, burst_cache, constructed.burst, auto_mask, ret'.self,
                       ret'.call).reads
    ELSE <<>>

\* C23: in every sequence of calls made one after the other (corrections,
\* footprints and merges with their reads of the burst grids, in any order and
\* with any set_auto_mask), every read of a burst variable is made under the
\* masking mode requested for it, never under the mode an earlier read left.
C23_ReadsUnderRequestedMode ==
    [][\A k \in 1..Len(ReadsOfStep) :
           ReadsOfStep[k].mode = ReadsOfStep[k].requested]_vars

\* ------------------ specification: retrievals on two threads (SpecThreads)

\* The product of the burst specification, of one azimuth sampling, in the
\* hands of a caller of NumThreads threads, who serializes the retrievals or
\* does not
InitThreads ==
    \E choice \in {c \in MergeChoices : c.gap = 2 /\ c.rg0 = 0 /\ c.dt = 2} :
        \E serialized \in BOOLEAN :
            /\ Opened(MergeLayout(choice), MergeLayout(choice))
            /\ threads = NoRetrieval(serialized)

\* The caller takes the first burst of the swath, and its threads retrieve
\* the range sum from it, in masked mode or not
NextThreads ==
    \/ \E index \in Range(swath_list) : GetSwath(index)
    \/ \E self \in SwathObjects : GetBurst(self, 1)
    \/ \E t \in Threads : \E burst \in BurstObjects : \E m \in BOOLEAN :
          EnterGetEtadParam(t, burst, "sumOfCorrectionsRg", m)
    \/ \E t \in Threads : ThreadSetAutoMask(t)
    \/ \E t \in Threads : ThreadRead(t)

SpecThreads == InitThreads /\ [][NextThreads]_vars

\* Thread t has returned from a retrieval that read its variable under
\* another masking mode than the one it set
ReadUnderForeignMode(t) ==
    /\ threads.calls[t].pc = "done"
    /\ threads.calls[t].mode # threads.calls[t].set_auto_mask

\* C24: when the caller serializes the retrievals on a burst store handle, no
\* retrieval reads under a masking mode set by another one: each reads under
\* the mode it set itself.  (That two retrievals of different modes which run
\* at the same time without synchronization can do so is the reachable state
\* C24_Witness.)
C24_SerializedReadsUnderOwnMode ==
    threads.serialized => \A t \in Threads : ~ReadUnderForeignMode(t)

\* without synchronization, two retrievals of different masking modes were
\* under way on the same burst group at the same time, and one of them has
\* read under the mode that the other one set between its set_auto_mask and
\* its read
C24_Witness ==
    /\ ~threads.serialized
    /\ \E t, u \in Threads :
          /\ t # u
          /\ ReadUnderForeignMode(t)
          /\ threads.calls[u].pc \in {"read", "done"}
          /\ threads.calls[u].self.grp = threads.calls[t].self.grp
          /\ threads.calls[u].set_auto_mask # threads.calls[t].set_auto_mask
          /\ threads.calls[t].mode = threads.calls[u].set_auto_mask

\* A product name with another marker in its polarization field and another
\* checksum
NameWith(name, marker, crc) ==
    [name EXCEPT !.stem = [@ EXCEPT ![5] = [@ EXCEPT ![2] = marker], ![10] = <<crc>>]]

\* text contains part (plain text)
Contains(text, part) ==
    \E off \in 0..(Len(text) - Len(part)) : SubSeq(text, off + 1, off + Len(part)) = part

\* The productID contains the product name with the marker of an annotation
\* product ("A") or of a standard product ("S") in the place of its marker
\* and without its checksum
NameSelects(name, productID) ==
    \E marker \in {"A", "S"} :
        Contains(productID,
                 Join(SubSeq(NameWith(name, marker, "").stem, 1, 9)) \o <<"_">>)

\* The rows that the query of the last call returns for another product name
RowsFor(name) ==
    Range(query_burst_sorted(CatalogueRows, CatalogueRows, ret.first_time,
                             Some(name), ret.last_time, ret.swath))

\* C25: a query by product name over the whole time span returns exactly the
\* rows whose productID contains the name with the marker character of the
\* polarization field free to be that of an annotation or of a standard
\* product and without the checksum; names that differ only in that marker
\* and in the checksum select the same rows; and the name under which the
\* catalogue lists a product selects the rows of that product.
C25_ProductNameFilter ==
    (/\ IsQuery /\ ret.ok
     /\ ret.product_name # None
     /\ ret.first_time = Some(0) /\ ret.last_time = Some(MaxTime)
     /\ ret.swath = None)
        => /\ Range(ret.result)
                 = {row \in Range(CatalogueRows) :
                       NameSelects(ret.product_name[1], row.productID)}
           /\ \A marker \in {"A", "S"}, crc \in {"CRC0", "CRC1"} :
                 RowsFor(NameWith(ret.product_name[1], marker, crc)) = Range(ret.result)
           /\ \A listed \in Range(CatalogueRows) :
                 listed.productID
                       = Join(ret.product_name[1].stem) \o <<ret.product_name[1].suffix>>
                    => Range(ret.result)
                         = {row \in Range(CatalogueRows) :
                               row.productID = listed.productID}

\* C26: in a merge that returns a raster the row index round((t - t0) / dt)
\* of every sample of every selected burst is a row of the raster, from 0 to
\* num_lines - 1: a selection with a sample before or after the window fails
\* and returns no raster.
C26_RowIndicesInRaster ==
    (IsMerge /\ ret.ok)
        => \A k \in 1..Len(Selected) : \A i \in 1..LinesPerBurst :
              RowOfLine(Selected[k], i) \in 0..(Len(ret.result.data) - 1)

====
